---- MODULE Spec2Model ----
(***************************************************************************)
(* Relay server of volatile-chat (server.js): the connection registry      *)
(* `clients`, the per-recipient Redis lists chat:<userId>, and the async   *)
(* WebSocket message handler, split at each `await` on a Redis command.    *)
(*                                                                         *)
(* Redis is reached through one ioredis connection: commands execute in    *)
(* the order they are issued and their replies resolve in that order.      *)
(* The result of a command is therefore fixed when it is issued; the model *)
(* applies a command's effect at the issuing step and resumes the          *)
(* suspended handlers first-in first-out (`pending`).                      *)
(* Date.now() timestamps are left out of messages and frames.              *)
(*                                                                         *)
(* Spec is the relay with Redis reachable throughout.  SpecStore adds the  *)
(* loss of the Redis connection: ioredis is configured with                *)
(* maxRetriesPerRequest: null and a retryStrategy that never gives up, so  *)
(* a command issued while the connection is down waits in the offline     *)
(* queue and its promise stays unsettled.                                  *)
(*                                                                         *)
(* SpecClient is the browser session controller GhostChat                  *)
(* (crypto-browser.js): its module variables, its WebSocket objects and    *)
(* its async handlers, split at each await on FileReader or Web Crypto.    *)
(* The frames it reads are drawn from small sets; the frames it writes     *)
(* and the messages it renders in a step are kept in `tx` and `shown`.     *)
(* AES-GCM under a PBKDF2 key is symbolic: an envelope names its key and   *)
(* its plaintext, and opens under that key only.                           *)
(*                                                                         *)
(* SpecReconnect is the client's connection life cycle alone, SpecPanic    *)
(* the session while the chat is hidden and shown again.  SpecCrypto is    *)
(* one use of the cipher modules (crypto-module.js, CryptoBrowser),        *)
(* SpecKeys one SessionKeyManager, SpecMedia the relay for clients that    *)
(* send any mediaType, SpecFrames the length of a media message from the   *)
(* picked file to the relay's receiver.                                    *)
(***************************************************************************)
EXTENDS Integers, Sequences, FiniteSets, TLC

\* ---- bounds of the model ------------------------------------------------
MaxRegs == 2            \* register frames carrying a userId
MaxMsgs == 2            \* messages created by send_message
MaxSeen == 2            \* seen and seen_all frames that reach Redis
MaxErrs == 1            \* frames answered with an error frame
MaxInFlight == 2        \* handlers suspended on Redis when a frame arrives
MaxSockets == 6         \* WebSocket objects the client creates in one run
MaxSends == 2           \* texts, photos and voice notes the user sends
MaxIncoming == 2        \* messages the client is sent, over all frames
MaxDestroys == 1        \* calls of GhostChat.destroy()
MaxPlain == 1           \* code units of a plaintext given to encryptWithPassword
MaxSalts == 2           \* distinct values crypto.randomBytes(SALT_LENGTH) returns
MaxKeyOps == 6          \* calls on one SessionKeyManager
MaxChunks == 81         \* size of a picked file, in units of 64 KiB
MaxAlias == 2           \* characters of the recipient alias

Conns == {"c1", "c2"}                    \* WebSocket objects
Ids == {"a", "b"}                        \* userId strings clients may use
NoConn == "none"                         \* clients.get(k) === undefined
Null == ""                               \* let userId = null / falsy field
Contents == {"ct"}                       \* opaque msg.content values
BogusId == MaxMsgs + 2                   \* a messageId no uuidv4() returned
Socks == 1..MaxSockets                   \* the client's WebSocket objects
NoSock == 0                              \* let ws = null
Aliases == {"a", "b"}                    \* values of the alias input
Passwords == {"p", "q"}                  \* values of the password input
Texts == {"hi"}                          \* what the user types, picks or records

\* What the clients send in one run: how many frames of each kind, and
\* the msg.mediaType values they use ("" = field absent).  A run follows
\* one of these profiles; each profile stretches one kind of frame: many
\* registrations, two senders with two messages and a seen_all, many
\* messages, many acknowledgements, malformed frames.
Profiles ==
    { [reg |-> MaxRegs, msg |-> 1, seen |-> 1, err |-> 0, media |-> {""}],
      [reg |-> 2, msg |-> 2, seen |-> 1, err |-> 0, media |-> {""}],
      [reg |-> 1, msg |-> MaxMsgs, seen |-> 1, err |-> 0, media |-> {""}],
      [reg |-> 1, msg |-> 1, seen |-> MaxSeen, err |-> 0, media |-> {""}],
      [reg |-> 1, msg |-> 1, seen |-> 1, err |-> MaxErrs, media |-> {"", "image"}] }

VARIABLES
    clients,    \* const clients = new Map(): userId -> WebSocket
    userId,     \* per connection closure variable `let userId = null`
    ready,      \* ws.readyState: "new" | "open" | "closing" | "closed"
    queue,      \* Redis list chat:<userId>, a sequence of messages
    pending,    \* handlers suspended on a Redis reply, in issue order
    outbox,     \* frames the last step handed to ws.send(), per connection
    known,      \* history: message ids some frame has carried to a client
    lastReg,    \* history: the connection that last registered each userId
    hist,       \* history: ids acked deleted:true, counted by a seen_all,
                \*          and announced by a message_seen; the messages
                \*          each connection has received
    nextId,     \* number of uuidv4() values handed out
    store,      \* the ioredis connection: "up" | "down"
    env,        \* frames the clients may still send, by kind
    last        \* the step that led to this state

VARIABLES
    gc,         \* GhostChat's module variables, whether the password modal
                \* is shown and whether the chat is (#ghost-mode.active)
    socks,      \* readyState of each WebSocket the client has created
    jobs,       \* the client's handlers suspended on an await
    tx,         \* frames the last step wrote with ws.send(), with their socket
    shown,      \* addMessage() calls of the last step
    cenv,       \* what the user and the network may still do to the client
    clast,      \* the client step that led to this state
    timers,     \* the browser's pending setTimeout() callbacks
    chist       \* history: reconnects scheduled since the last open

VARIABLES
    cry         \* one use of the cipher modules: inputs, envelope, results

relay == <<clients, userId, ready, queue, pending, outbox, known, lastReg, hist,
           nextId, store, env, last>>

session == <<gc, socks, jobs, tx, shown, cenv, clast, timers, chist>>

vars == <<clients, userId, ready, queue, pending, outbox, known, lastReg, hist,
          nextId, store, env, last, gc, socks, jobs, tx, shown, cenv, clast,
          timers, chist, cry>>

\* ---- data ----------------------------------------------------------------
NoMsg == [id |-> 0, from |-> "", to |-> "", content |-> "", mediaType |-> ""]

\* variant: a chatMessage stamped with sender and recipient exchanged
ChatMessageSwapped(id, from, to, content, mediaType) ==
    [id |-> id, from |-> to, to |-> from, content |-> content,
     mediaType |-> IF mediaType = "" THEN "text" ELSE mediaType]

\* chatMessage = { id, from, to, content, mediaType: msg.mediaType || 'text' }
ChatMessage(id, from, to, content, mediaType) ==
    [id |-> id, from |-> from, to |-> to, content |-> content,
     mediaType |-> IF mediaType = "" THEN "text" ELSE mediaType]

\* server -> client frames, one record shape for all types
Frame(type, mid, who, count, msgs, deleted, text) ==
    [type |-> type, mid |-> mid, who |-> who, count |-> count,
     msgs |-> msgs, deleted |-> deleted, text |-> text]

ErrorFrame(text) == Frame("error", 0, "", 0, <<>>, FALSE, text)
PendingMessages(msgs) == Frame("pending_messages", 0, "", Len(msgs), msgs, FALSE, "")
NewMessage(m) == Frame("new_message", m.id, m.to, 0, <<m>>, FALSE, "")
MessageSent(m) == Frame("message_sent", m.id, m.to, 0, <<>>, FALSE, "")
MessageSeen(mid, by) == Frame("message_seen", mid, by, 0, <<>>, FALSE, "")
AllMessagesSeen(by, n) == Frame("all_messages_seen", 0, by, n, <<>>, FALSE, "")
AckSeen(mid, deleted) ==
    Frame("ack_seen", mid, "", 0, <<>>, deleted,
          IF deleted THEN "" ELSE "Mensaje no encontrado en la cola")
AckSeenAll(n) == Frame("ack_seen_all", 0, "", n, <<>>, FALSE, "")

\* a suspended handler: its frame type, the await it is parked on, its
\* connection, the userId it read when it started, and its locals
Task(type, pc, c, key, mid, msg, snap) ==
    [type |-> type, pc |-> pc, conn |-> c, key |-> key, mid |-> mid,
     msg |-> msg, snap |-> snap]

NoTask == Task("", "", NoConn, "", 0, NoMsg, <<>>)

Step(op, t) == [op |-> op, task |-> t]

\* ---- library behaviour ---------------------------------------------------
\* no ws.send() call in this step
Quiet == [c \in Conns |-> <<>>]

\* ws.send(data) on connection c.  ws (>= 8) transmits the frame when
\* readyState is OPEN and discards it without an exception otherwise.
WsSend(ob, c, f) == [ob EXCEPT ![c] = Append(@, f)]

\* the frames of ob that reach a client
Transmitted(ob) == [c \in Conns |-> IF ready[c] = "open" THEN ob[c] ELSE <<>>]

\* the frames of type ty in the sequence fs
OfType(fs, ty) == SelectSeq(fs, LAMBDA f : f.type = ty)

\* message ids carried by the frames in ob
IdsIn(ob) ==
    UNION {UNION {{ob[c][i].mid} \cup {ob[c][i].msgs[j].id : j \in 1..Len(ob[c][i].msgs)} :
                    i \in 1..Len(ob[c])} : c \in Conns} \ {0}

\* ids of the frames of ob that satisfy Test
IdsWhere(ob, Test(_)) ==
    UNION {{ob[c][i].mid : i \in {j \in 1..Len(ob[c]) : Test(ob[c][j])}} :
             c \in Conns} \ {0}

RECURSIVE Carried(_)
\* the messages carried by the frames fs, in the order they are read
Carried(fs) == IF fs = <<>> THEN <<>> ELSE Head(fs).msgs \o Carried(Tail(fs))

\* history of this step: what the clients learn from its frames
Learn ==
    /\ known' = known \cup IdsIn(Transmitted(outbox'))
    /\ hist' = [acked |-> hist.acked \cup
                    IdsWhere(outbox', LAMBDA f : f.type = "ack_seen" /\ f.deleted),
                counted |-> hist.counted \cup
                    IF last'.op = "seen_all_done"
                        THEN {last'.task.snap[i].id : i \in 1..Len(last'.task.snap)}
                        ELSE {},
                notified |-> hist.notified \cup
                    IdsWhere(outbox', LAMBDA f : f.type = "message_seen"),
                got |-> [c \in Conns |-> hist.got[c] \cup
                    {Carried(Transmitted(outbox')[c])[i] :
                        i \in 1..Len(Carried(Transmitted(outbox')[c]))}]]

\* recipientWs && recipientWs.readyState === 1
Live(k) == clients[k] # NoConn /\ ready[clients[k]] = "open"

RECURSIVE RemoveFirst(_, _)
\* LREM key 1 value: removes the first element equal to value
RemoveFirst(s, x) ==
    IF s = <<>> THEN <<>>
    ELSE IF Head(s) = x THEN Tail(s)
    ELSE <<Head(s)>> \o RemoveFirst(Tail(s), x)

RECURSIVE FindById(_, _)
\* for (const raw of allMessages) if (parsed.id === messageId) return parsed
FindById(s, id) ==
    IF s = <<>> THEN NoMsg
    ELSE IF Head(s).id = id THEN Head(s)
    ELSE FindById(Tail(s), id)

RECURSIVE SendersOfEach(_, _)
\* variant: an array instead of a Set, one entry per message
SendersOfEach(s, acc) ==
    IF s = <<>> THEN acc
    ELSE SendersOfEach(Tail(s), Append(acc, Head(s).from))

RECURSIVE SendersOf(_, _)
\* senders = new Set(); for (raw of allRaw) senders.add(m.from)
\* a JS Set keeps insertion order: the sequence of distinct senders
SendersOf(s, acc) ==
    IF s = <<>> THEN acc
    ELSE SendersOf(Tail(s),
                   IF \E i \in 1..Len(acc) : acc[i] = Head(s).from
                       THEN acc ELSE Append(acc, Head(s).from))

RECURSIVE NotifySenders(_, _, _)
\* for (const senderId of senders) { senderWs = clients.get(senderId); ... }
NotifySenders(ob, senders, f) ==
    IF senders = <<>> THEN ob
    ELSE NotifySenders(IF Live(Head(senders))
                           THEN WsSend(ob, clients[Head(senders)], f)
                           ELSE ob,
                       Tail(senders), f)

\* ---- initial state -------------------------------------------------------
\* GhostChat before init(): every module variable null, no socket
SessionIdle ==
    /\ gc = [ws |-> NoSock, sessionPassword |-> Null, userId |-> Null,
             recipientId |-> Null, isConnected |-> FALSE, reconnectAttempts |-> 0,
             reconnectTimer |-> 0, modal |-> FALSE, active |-> FALSE]
    /\ socks = [s \in Socks |-> "unused"]
    /\ jobs = {}
    /\ tx = <<>>
    /\ shown = <<>>
    /\ clast = [op |-> "init", job |-> 0]
    /\ timers = {}
    /\ chist = [sinceOpen |-> 0, lastDelay |-> 0, sinceReset |-> 0, prevDelay |-> 0]

\* no user at the client
NoInput ==
    [send |-> 0, incoming |-> 0, destroy |-> 0, sockets |-> 0, nextJob |-> 1, nextMsg |-> 1]

RelayInit ==
    /\ clients = [k \in Ids |-> NoConn]
    /\ userId = [c \in Conns |-> Null]
    /\ ready = [c \in Conns |-> "new"]
    /\ queue = [k \in Ids |-> <<>>]
    /\ pending = <<>>
    /\ outbox = Quiet
    /\ known = {}
    /\ lastReg = [k \in Ids |-> NoConn]
    /\ hist = [acked |-> {}, counted |-> {}, notified |-> {},
               got |-> [c \in Conns |-> {}]]
    /\ nextId = 0
    /\ store = "up"
    /\ last = Step("init", NoTask)

Init ==
    /\ RelayInit
    /\ env \in Profiles
    /\ SessionIdle
    /\ cenv = NoInput
    /\ cry = [phase |-> "idle"]

\* ---- transport events ----------------------------------------------------
\* wss.on("connection", (ws, req) => { let userId = null; ... })
Connection(c) ==
    /\ ready[c] = "new"
    /\ c = "c1" \/ ready["c1"] # "new"     \* sockets are interchangeable
    /\ ready' = [ready EXCEPT ![c] = "open"]
    /\ last' = Step("connection", Task("", "", c, "", 0, NoMsg, <<>>))
    /\ outbox' = Quiet
    /\ UNCHANGED <<clients, userId, queue, pending, nextId, env, lastReg>>
    /\ UNCHANGED <<store, session, cry>>
    /\ Learn

\* the socket leaves OPEN (readyState 2 or 3); no further frame is read
\* and the 'close' event has not been emitted yet
Closing(c) ==
    /\ ready[c] = "open"
    /\ ready' = [ready EXCEPT ![c] = "closing"]
    /\ last' = Step("closing", Task("", "", c, userId[c], 0, NoMsg, <<>>))
    /\ outbox' = Quiet
    /\ UNCHANGED <<clients, userId, queue, pending, nextId, env, lastReg>>
    /\ UNCHANGED <<store, session, cry>>
    /\ Learn

\* ws.on("close", () => { if (userId) clients.delete(userId); })
OnClose(c) ==
    /\ ready[c] = "closing"
    /\ ready' = [ready EXCEPT ![c] = "closed"]
    /\ clients' = IF userId[c] # Null
                      THEN [clients EXCEPT ![userId[c]] = NoConn]
                      ELSE clients
    /\ last' = Step("close", Task("", "", c, userId[c], 0, NoMsg, <<>>))
    /\ outbox' = Quiet
    /\ UNCHANGED <<userId, queue, pending, nextId, env, lastReg>>
    /\ UNCHANGED <<store, session, cry>>
    /\ Learn

\* ---- frames: the synchronous head of the message handler -----------------
\* a frame is read from an open socket; the model lets it arrive while
\* fewer than MaxInFlight handlers are suspended
CanReceive(c) == ready[c] = "open" /\ Len(pending) < MaxInFlight

\* the frame is answered with an error frame and nothing else happens
ReplyError(c, type, text) ==
    /\ env.err > 0
    /\ env' = [env EXCEPT !.err = @ - 1]
    /\ outbox' = WsSend(Quiet, c, ErrorFrame(text))
    /\ last' = Step("error", Task(type, "", c, userId[c], 0, NoMsg, <<>>))

\* JSON.parse(raw) throws
OnInvalidJson(c) ==
    /\ CanReceive(c)
    /\ ReplyError(c, "json", "JSON invalido")
    /\ UNCHANGED <<clients, userId, ready, queue, pending, nextId, lastReg>>
    /\ UNCHANGED <<store, session, cry>>
    /\ Learn

\* the frame is the JSON literal null: JSON.parse returns null and
\* `switch (msg.type)` throws a TypeError outside the try block.  The async
\* handler's promise rejects with nobody to catch it: no frame is sent,
\* and where Node ends the process on an unhandled rejection the run
\* stops here.
OnNullFrame(c) ==
    /\ CanReceive(c)
    /\ env.err > 0
    /\ env' = [env EXCEPT !.err = @ - 1]
    /\ outbox' = Quiet
    /\ last' = Step("throw", Task("null", "", c, userId[c], 0, NoMsg, <<>>))
    /\ UNCHANGED <<clients, userId, ready, queue, pending, nextId, lastReg>>
    /\ UNCHANGED <<store, session, cry>>
    /\ Learn

\* default: branch of the switch
OnUnknownType(c) ==
    /\ CanReceive(c)
    /\ ReplyError(c, "unknown", "Tipo de mensaje desconocido")
    /\ UNCHANGED <<clients, userId, ready, queue, pending, nextId, lastReg>>
    /\ UNCHANGED <<store, session, cry>>
    /\ Learn

\* case "register": up to the await inside deliverPending
OnRegister(c, uid) ==
    /\ CanReceive(c)
    /\ IF uid = Null
         THEN /\ ReplyError(c, "register", "userId requerido")
              /\ UNCHANGED <<clients, userId, pending, lastReg>>
         ELSE LET t == Task("register", "lrange", c, uid, 0, NoMsg, queue[uid])
              IN /\ env.reg > 0
                 /\ store = "up"
                 \* userIds are interchangeable: the first one used is "a"
                 /\ uid = "a" \/ \E k \in Ids : lastReg[k] # NoConn
                 /\ env' = [env EXCEPT !.reg = @ - 1]
                 /\ userId' = [userId EXCEPT ![c] = uid]
                 /\ clients' = [clients EXCEPT ![uid] = c]
                 /\ lastReg' = [lastReg EXCEPT ![uid] = c]
                 /\ pending' = Append(pending, t)
                 /\ last' = Step("register", t)
                 /\ outbox' = Quiet
    /\ UNCHANGED <<ready, queue, nextId>>
    /\ UNCHANGED <<store, session, cry>>
    /\ Learn

\* case "send_message": up to await redis.rpush(redisKey, ...)
OnSendMessage(c, to, content, mediaType) ==
    /\ CanReceive(c)
    /\ IF userId[c] = Null
         THEN /\ ReplyError(c, "send_message", "Registrate primero")
              /\ UNCHANGED <<queue, pending, nextId>>
         ELSE IF to = Null \/ content = Null
         THEN /\ ReplyError(c, "send_message", "Campos 'to' y 'content' requeridos")
              /\ UNCHANGED <<queue, pending, nextId>>
         ELSE /\ env.msg > 0
              /\ store = "up"
              /\ LET m == ChatMessage(nextId + 1, userId[c], to, content, mediaType)
                     t == Task("send_message", "rpush", c, userId[c], m.id, m, <<>>)
                 IN /\ nextId' = nextId + 1
                    /\ env' = [env EXCEPT !.msg = @ - 1]
                    /\ queue' = [queue EXCEPT ![to] = Append(@, m)]
                    /\ pending' = Append(pending, t)
                    /\ last' = Step("send_message", t)
                    /\ outbox' = Quiet
    /\ UNCHANGED <<clients, userId, ready, lastReg>>
    /\ UNCHANGED <<store, session, cry>>
    /\ Learn

\* case "seen": up to await redis.lrange in deleteMessageFromRedis
OnSeen(c, mid) ==
    /\ CanReceive(c)
    /\ IF userId[c] = Null
         THEN /\ ReplyError(c, "seen", "Registrate primero")
              /\ UNCHANGED pending
         ELSE IF mid = 0
         THEN /\ ReplyError(c, "seen", "messageId requerido")
              /\ UNCHANGED pending
         ELSE LET t == Task("seen", "lrange", c, userId[c], mid, NoMsg, queue[userId[c]])
              IN /\ env.seen > 0
                 /\ store = "up"
                 /\ env' = [env EXCEPT !.seen = @ - 1]
                 /\ pending' = Append(pending, t)
                 /\ last' = Step("seen", t)
                 /\ outbox' = Quiet
    /\ UNCHANGED <<clients, userId, ready, queue, nextId, lastReg>>
    /\ UNCHANGED <<store, session, cry>>
    /\ Learn

\* case "seen_all": up to await redis.lrange(redisKey, 0, -1)
OnSeenAll(c) ==
    /\ CanReceive(c)
    /\ IF userId[c] = Null
         THEN /\ ReplyError(c, "seen_all", "Registrate primero")
              /\ UNCHANGED pending
         ELSE LET t == Task("seen_all", "lrange", c, userId[c], 0, NoMsg, queue[userId[c]])
              IN /\ env.seen > 0
                 /\ store = "up"
                 /\ env' = [env EXCEPT !.seen = @ - 1]
                 /\ pending' = Append(pending, t)
                 /\ last' = Step("seen_all", t)
                 /\ outbox' = Quiet
    /\ UNCHANGED <<clients, userId, ready, queue, nextId, lastReg>>
    /\ UNCHANGED <<store, session, cry>>
    /\ Learn

\* ---- continuations: the handler parked first in issue order resumes -----
Parked(type, pc) ==
    /\ store = "up"
    /\ pending # <<>>
    /\ Head(pending).type = type
    /\ Head(pending).pc = pc

\* variant: the flush also deletes the key it has read
DeliverPendingDrains ==
    /\ Parked("register", "lrange")
    /\ LET t == Head(pending)
       IN /\ outbox' = IF Len(t.snap) > 0
                           THEN WsSend(Quiet, t.conn, PendingMessages(t.snap))
                           ELSE Quiet
          /\ queue' = [queue EXCEPT ![t.key] = <<>>]
          /\ last' = Step("deliverPending", t)
    /\ pending' = Tail(pending)
    /\ UNCHANGED <<clients, userId, ready, nextId, env, lastReg>>
    /\ UNCHANGED <<store, session, cry>>
    /\ Learn

\* variant: the batch is sent without the pending.length > 0 test
DeliverPendingAlways ==
    /\ Parked("register", "lrange")
    /\ LET t == Head(pending)
       IN /\ outbox' = WsSend(Quiet, t.conn, PendingMessages(t.snap))
          /\ last' = Step("deliverPending", t)
    /\ pending' = Tail(pending)
    /\ UNCHANGED <<clients, userId, ready, queue, nextId, env, lastReg>>
    /\ UNCHANGED <<store, session, cry>>
    /\ Learn

\* deliverPending after await redis.lrange: one batch when non-empty
DeliverPending ==
    /\ Parked("register", "lrange")
    /\ LET t == Head(pending)
       IN /\ outbox' = IF Len(t.snap) > 0
                           THEN WsSend(Quiet, t.conn, PendingMessages(t.snap))
                           ELSE Quiet
          /\ last' = Step("deliverPending", t)
    /\ pending' = Tail(pending)
    /\ UNCHANGED <<clients, userId, ready, queue, nextId, env, lastReg>>
    /\ UNCHANGED <<store, session, cry>>
    /\ Learn

\* variant: the sender is acknowledged only when the recipient is live
SendMessageDoneIfLive ==
    /\ Parked("send_message", "rpush")
    /\ LET t == Head(pending)
       IN /\ outbox' = IF Live(t.msg.to)
                           THEN WsSend(WsSend(Quiet, t.conn, MessageSent(t.msg)),
                                       clients[t.msg.to], NewMessage(t.msg))
                           ELSE Quiet
          /\ last' = Step("message_sent", t)
    /\ pending' = Tail(pending)
    /\ UNCHANGED <<clients, userId, ready, queue, nextId, env, lastReg>>
    /\ UNCHANGED <<store, session, cry>>
    /\ Learn

\* send_message after await redis.rpush: message_sent, then the live push
SendMessageDone ==
    /\ Parked("send_message", "rpush")
    /\ LET t == Head(pending)
           acked == WsSend(Quiet, t.conn, MessageSent(t.msg))
       IN /\ outbox' = IF Live(t.msg.to)
                           THEN WsSend(acked, clients[t.msg.to], NewMessage(t.msg))
                           ELSE acked
          /\ last' = Step("message_sent", t)
    /\ pending' = Tail(pending)
    /\ UNCHANGED <<clients, userId, ready, queue, nextId, env, lastReg>>
    /\ UNCHANGED <<store, session, cry>>
    /\ Learn

\* deleteMessageFromRedis after await redis.lrange, id found in the
\* snapshot: pipeline.lrem(redisKey, 1, raw), await pipeline.exec()
SeenLrem ==
    /\ Parked("seen", "lrange")
    /\ LET t == Head(pending)
           parsed == FindById(t.snap, t.mid)
           t2 == [t EXCEPT !.pc = "lrem", !.msg = parsed]
       IN /\ parsed # NoMsg
          /\ queue' = [queue EXCEPT ![t.key] = RemoveFirst(@, parsed)]
          /\ pending' = Append(Tail(pending), t2)
          /\ last' = Step("seen_lrem", t2)
    /\ outbox' = Quiet
    /\ UNCHANGED <<clients, userId, ready, nextId, env, lastReg>>
    /\ UNCHANGED <<store, session, cry>>
    /\ Learn

\* variant: an unknown id is answered with an error frame
SeenNotFoundIsError ==
    /\ Parked("seen", "lrange")
    /\ LET t == Head(pending)
       IN /\ FindById(t.snap, t.mid) = NoMsg
          /\ outbox' = WsSend(Quiet, t.conn, ErrorFrame("Mensaje no encontrado en la cola"))
          /\ last' = Step("seen_not_found", t)
    /\ pending' = Tail(pending)
    /\ UNCHANGED <<clients, userId, ready, queue, nextId, env, lastReg>>
    /\ UNCHANGED <<store, session, cry>>
    /\ Learn

\* deleteMessageFromRedis returns null: ack_seen deleted:false
SeenNotFound ==
    /\ Parked("seen", "lrange")
    /\ LET t == Head(pending)
       IN /\ FindById(t.snap, t.mid) = NoMsg
          /\ outbox' = WsSend(Quiet, t.conn, AckSeen(t.mid, FALSE))
          /\ last' = Step("seen_not_found", t)
    /\ pending' = Tail(pending)
    /\ UNCHANGED <<clients, userId, ready, queue, nextId, env, lastReg>>
    /\ UNCHANGED <<store, session, cry>>
    /\ Learn

\* seen after deleteMessageFromRedis returned the parsed message:
\* message_seen to the original sender if live, then ack_seen deleted:true;
\* seenBy is the closure variable userId as it is now
SeenDone ==
    /\ Parked("seen", "lrem")
    /\ LET t == Head(pending)
           notified == IF Live(t.msg.from)
                           THEN WsSend(Quiet, clients[t.msg.from],
                                       MessageSeen(t.mid, userId[t.conn]))
                           ELSE Quiet
       IN /\ outbox' = WsSend(notified, t.conn, AckSeen(t.mid, TRUE))
          /\ last' = Step("seen_done", t)
    /\ pending' = Tail(pending)
    /\ UNCHANGED <<clients, userId, ready, queue, nextId, env, lastReg>>
    /\ UNCHANGED <<store, session, cry>>
    /\ Learn

\* seen_all after await redis.lrange: await redis.del(redisKey)
SeenAllDel ==
    /\ Parked("seen_all", "lrange")
    /\ LET t == Head(pending)
           t2 == [t EXCEPT !.pc = "del"]
       IN /\ queue' = [queue EXCEPT ![t.key] = <<>>]
          /\ pending' = Append(Tail(pending), t2)
          /\ last' = Step("seen_all_del", t2)
    /\ outbox' = Quiet
    /\ UNCHANGED <<clients, userId, ready, nextId, env, lastReg>>
    /\ UNCHANGED <<store, session, cry>>
    /\ Learn

\* seen_all after await redis.del: one all_messages_seen per distinct
\* sender that is live, count = allRaw.length, then ack_seen_all
SeenAllDone ==
    /\ Parked("seen_all", "del")
    /\ LET t == Head(pending)
           notified == NotifySenders(Quiet, SendersOf(t.snap, <<>>),
                                     AllMessagesSeen(userId[t.conn], Len(t.snap)))
       IN /\ outbox' = WsSend(notified, t.conn, AckSeenAll(Len(t.snap)))
          /\ last' = Step("seen_all_done", t)
    /\ pending' = Tail(pending)
    /\ UNCHANGED <<clients, userId, ready, queue, nextId, env, lastReg>>
    /\ UNCHANGED <<store, session, cry>>
    /\ Learn

\* ---- Redis unreachable ---------------------------------------------------
\* the connection to Redis is lost; redis.on("error", () => {}) ignores it.
\* The outage starts while no command is in flight and lasts: what ioredis
\* replays after a reconnect is not followed here.
StoreDown ==
    /\ store = "up"
    /\ pending = <<>>
    /\ store' = "down"
    /\ last' = Step("store_down", NoTask)
    /\ outbox' = Quiet
    /\ UNCHANGED <<clients, userId, ready, queue, pending, nextId, env, lastReg>>
    /\ UNCHANGED <<session, cry>>
    /\ Learn

\* a handler calls a Redis command while the connection is down: the
\* command waits in the offline queue, nothing is stored and the await
\* does not return
Offline(c, t) ==
    /\ CanReceive(c)
    /\ store = "down"
    /\ pending' = Append(pending, t)
    /\ last' = Step("offline", t)
    /\ outbox' = Quiet
    /\ UNCHANGED <<ready, queue, store, session, cry>>
    /\ Learn

\* case "register" with a userId: clients.set, then deliverPending waits
OnRegisterOffline(c, uid) ==
    /\ env.reg > 0
    /\ env' = [env EXCEPT !.reg = @ - 1]
    /\ userId' = [userId EXCEPT ![c] = uid]
    /\ clients' = [clients EXCEPT ![uid] = c]
    /\ lastReg' = [lastReg EXCEPT ![uid] = c]
    /\ UNCHANGED nextId
    /\ Offline(c, Task("register", "offline", c, uid, 0, NoMsg, <<>>))

\* case "send_message", valid: chatMessage is built, redis.rpush waits
OnSendMessageOffline(c, to, content, mediaType) ==
    /\ userId[c] # Null
    /\ env.msg > 0
    /\ env' = [env EXCEPT !.msg = @ - 1]
    /\ nextId' = nextId + 1
    /\ UNCHANGED <<clients, userId, lastReg>>
    /\ LET m == ChatMessage(nextId + 1, userId[c], to, content, mediaType)
       IN Offline(c, Task("send_message", "offline", c, userId[c], m.id, m, <<>>))

\* case "seen", valid: redis.lrange in deleteMessageFromRedis waits
OnSeenOffline(c, mid) ==
    /\ userId[c] # Null
    /\ mid # 0
    /\ env.seen > 0
    /\ env' = [env EXCEPT !.seen = @ - 1]
    /\ UNCHANGED <<clients, userId, lastReg, nextId>>
    /\ Offline(c, Task("seen", "offline", c, userId[c], mid, NoMsg, <<>>))

\* case "seen_all", valid: redis.lrange waits
OnSeenAllOffline(c) ==
    /\ userId[c] # Null
    /\ env.seen > 0
    /\ env' = [env EXCEPT !.seen = @ - 1]
    /\ UNCHANGED <<clients, userId, lastReg, nextId>>
    /\ Offline(c, Task("seen_all", "offline", c, userId[c], 0, NoMsg, <<>>))

\* ---- specification -------------------------------------------------------
\* ids a client can name in a seen frame: those some frame has carried,
\* one that was never issued, and none at all (0: messageId missing)
KnownIds == {0, BogusId} \cup known

Next ==
    \/ \E c \in Conns : Connection(c)
    \/ \E c \in Conns : Closing(c)
    \/ \E c \in Conns : OnClose(c)
    \/ \E c \in Conns : OnInvalidJson(c)
    \/ \E c \in Conns : OnNullFrame(c)
    \/ \E c \in Conns : OnUnknownType(c)
    \/ \E c \in Conns : \E uid \in Ids \cup {Null} : OnRegister(c, uid)
    \/ \E c \in Conns : \E to \in Ids \cup {Null} : \E content \in Contents \cup {Null} :
          \E mediaType \in env.media : OnSendMessage(c, to, content, mediaType)
    \/ \E c \in Conns : \E mid \in KnownIds : OnSeen(c, mid)
    \/ \E c \in Conns : OnSeenAll(c)
    \/ DeliverPending
    \/ SendMessageDone
    \/ SeenLrem
    \/ SeenNotFound
    \/ SeenDone
    \/ SeenAllDel
    \/ SeenAllDone

Spec == Init /\ [][Next]_vars

\* msg.mediaType as clients may send it: absent, the three kinds the
\* browser client uses, and another string
MediaTypes == {"", "text", "image", "audio", "video"}

\* the relay for clients that send any mediaType
InitMedia ==
    /\ RelayInit
    /\ env = [reg |-> 1, msg |-> 1, seen |-> 1, err |-> MaxErrs, media |-> MediaTypes]
    /\ SessionIdle
    /\ cenv = NoInput
    /\ cry = [phase |-> "idle"]

SpecMedia == InitMedia /\ [][Next]_vars

\* the relay with an outage of Redis, for clients that send few frames
InitStore ==
    /\ Init
    /\ env = [reg |-> 1, msg |-> 1, seen |-> 1, err |-> MaxErrs, media |-> {"", "image"}]

\* a handler whose Redis reply has arrived is resumed by the event loop
Resume ==
    \/ DeliverPending
    \/ SendMessageDone
    \/ SeenLrem
    \/ SeenNotFound
    \/ SeenDone
    \/ SeenAllDel
    \/ SeenAllDone

NextStore ==
    \/ Next
    \/ StoreDown
    \/ \E c \in Conns : \E uid \in Ids : OnRegisterOffline(c, uid)
    \/ \E c \in Conns : \E to \in Ids : \E content \in Contents :
          \E mediaType \in env.media : OnSendMessageOffline(c, to, content, mediaType)
    \/ \E c \in Conns : \E mid \in KnownIds \ {0} : OnSeenOffline(c, mid)
    \/ \E c \in Conns : OnSeenAllOffline(c)

SpecStore == InitStore /\ [][NextStore]_vars /\ WF_vars(Resume)

TypeOK ==
    /\ clients \in [Ids -> Conns \cup {NoConn}]
    /\ userId \in [Conns -> Ids \cup {Null}]
    /\ ready \in [Conns -> {"new", "open", "closing", "closed"}]
    /\ nextId \in 0..MaxMsgs
    /\ env.reg \in 0..MaxRegs /\ env.seen \in 0..MaxSeen
    /\ env.err \in 0..MaxErrs /\ env.msg \in 0..MaxMsgs
    /\ store \in {"up", "down"}

\* ==== the client session controller: GhostChat in crypto-browser.js ========
\* ---- data ----------------------------------------------------------------
\* TextEncoder.encode(password): null is converted to the string "null"
KeyOf(pw) == IF pw = Null THEN "null" ELSE pw

\* encryptWithPassword(plaintext, password): base64(salt | iv | ct+tag);
\* the random salt and iv are left out
EncryptWithPassword(plaintext, password) ==
    [kind |-> "enc", key |-> KeyOf(password), pt |-> plaintext]

\* a content that is no envelope: atob() or the length test throws
Garbage == [kind |-> "raw", key |-> "", pt |-> ""]
NoContent == [kind |-> "none", key |-> "", pt |-> ""]

\* decryptWithPassword(payload, password): the plaintext, or a throw
DecryptWithPassword(payload, password) ==
    IF payload.kind = "enc" /\ payload.key = KeyOf(password)
        THEN [ok |-> TRUE, pt |-> payload.pt]
        ELSE [ok |-> FALSE, pt |-> ""]

\* client -> server frames, one record shape for all types
CFrame(type, uid, to, content, mediaType, mid) ==
    [type |-> type, userId |-> uid, to |-> to, content |-> content,
     mediaType |-> mediaType, messageId |-> mid]

RegisterFrame(uid) == CFrame("register", uid, "", NoContent, "", 0)
SendMessageFrame(to, content, mediaType) ==
    CFrame("send_message", "", to, content, mediaType, 0)
SeenFrame(mid) == CFrame("seen", "", "", NoContent, "", mid)

\* a handler suspended on an await: on FileReader ("read"), on
\* encryptWithPassword ("encrypt") or on decryptWithPassword ("decrypt")
Job(jid, kind, input, mediaType, content, pw, msgs) ==
    [jid |-> jid, kind |-> kind, input |-> input, mediaType |-> mediaType,
     content |-> content, pw |-> pw, msgs |-> msgs]

NoJob == Job(0, "", "", "", NoContent, "", <<>>)

CStep(op, j) == [op |-> op, job |-> j]

\* ---- helpers of the handlers ----------------------------------------------
\* ws && ws.readyState === WebSocket.OPEN
WsOpen(g, sk) == g.ws # NoSock /\ sk[g.ws] = "open"

\* ws.send(frame) behind the test above: the frames written
Sent(g, sk, f) == IF WsOpen(g, sk) THEN <<[sock |-> g.ws, frame |-> f]>> ELSE <<>>

\* connectWebSocket() creates a socket unless ws is OPEN or CONNECTING
Connects(g, sk) == ~ (g.ws # NoSock /\ sk[g.ws] \in {"open", "connecting"})

NewSock(sk) == CHOOSE s \in Socks : sk[s] = "unused" /\ \A r \in Socks : sk[r] = "unused" => s <= r

\* the run has a socket left for connectWebSocket()
CanConnect(g, sk) == Connects(g, sk) => \E s \in 1..cenv.sockets : sk[s] = "unused"

ConnectWebSocket(g, sk) ==
    IF Connects(g, sk)
        THEN [gc |-> [g EXCEPT !.ws = NewSock(sk)],
              socks |-> [sk EXCEPT ![NewSock(sk)] = "connecting"]]
        ELSE [gc |-> g, socks |-> sk]

RECONNECT_BASE_MS == 1000
RECONNECT_MAX_MS == 15000

\* the delay without Math.min(..., RECONNECT_MAX_MS)
DelayUncapped(n) == RECONNECT_BASE_MS * (2 ^ n)

\* Math.min(RECONNECT_BASE_MS * Math.pow(2, reconnectAttempts), RECONNECT_MAX_MS)
Delay(n) ==
    IF RECONNECT_BASE_MS * (2 ^ n) < RECONNECT_MAX_MS
        THEN RECONNECT_BASE_MS * (2 ^ n) ELSE RECONNECT_MAX_MS

\* the id setTimeout() returns: one no pending timer has
TimerId(ts) == CHOOSE n \in 1..(Cardinality(ts) + 1) : \A t \in ts : t.id # n

\* scheduleReconnect() without its first line, if (reconnectTimer) return
ScheduleReconnectAlways(g, ts) ==
    [gc |-> [g EXCEPT !.reconnectTimer = TimerId(ts),
                      !.reconnectAttempts = @ + 1],
     timers |-> ts \cup {[id |-> TimerId(ts),
                          delay |-> Delay(g.reconnectAttempts)]}]

\* scheduleReconnect(): the module variables and the pending timers after it
ScheduleReconnect(g, ts) ==
    IF g.reconnectTimer # 0 THEN [gc |-> g, timers |-> ts]
    ELSE [gc |-> [g EXCEPT !.reconnectTimer = TimerId(ts),
                           !.reconnectAttempts = @ + 1],
          timers |-> ts \cup {[id |-> TimerId(ts),
                               delay |-> Delay(g.reconnectAttempts)]}]

\* clearTimeout(id)
ClearTimeout(ts, id) == {t \in ts : t.id # id}

\* history of the reconnects: how many timers were set since the last
\* successful open, and since the last open or destroy(), with the delay of
\* the latest of them
Observe ==
    LET new == timers' \ timers
        d == IF new = {} THEN 0 ELSE (CHOOSE t \in new : TRUE).delay
        n == Cardinality(new)
    IN chist' =
         [sinceOpen |-> IF clast'.op = "open" THEN 0 ELSE chist.sinceOpen + n,
          lastDelay |-> IF clast'.op = "open" THEN 0
                        ELSE IF n > 0 THEN d ELSE chist.lastDelay,
          sinceReset |-> IF clast'.op \in {"open", "destroy"} THEN 0
                         ELSE chist.sinceReset + n,
          prevDelay |-> IF clast'.op \in {"open", "destroy"} THEN 0
                        ELSE IF n > 0 THEN d ELSE chist.prevDelay]

\* getRecipient(): the recipient input, else recipientId, else null
Recipient(g, typed) == IF typed # Null THEN typed ELSE g.recipientId

\* handleIncomingMessage after the decryption: addMessage, then the seen
Label(g, m) == IF m.from = g.userId THEN "sent" ELSE "received"

\* addMessage(content, mediaType, type, chatMsg)
AddMessage(content, mediaType, type, id, from, to) ==
    [text |-> content, mediaType |-> mediaType, type |-> type,
     id |-> id, from |-> from, to |-> to]

Rendered(g, m, res) ==
    IF res.ok /\ res.pt # ""
        THEN AddMessage(res.pt, m.mediaType, Label(g, m), m.id, m.from, m.to)
        ELSE AddMessage("Ruido ilegible", "text", Label(g, m), m.id, m.from, m.to)

AutoSeen(g, sk, m) ==
    IF Label(g, m) = "received" THEN Sent(g, sk, SeenFrame(m.id)) ELSE <<>>

NoResult == [ok |-> FALSE, pt |-> ""]

RECURSIVE Drain(_, _, _, _, _)
\* the batch loop up to the first message whose decryption really
\* suspends: a content that is no envelope is rejected before any await
\* on Web Crypto, its handling runs to the end in microtasks
Drain(g, sk, msgs, out, scr) ==
    IF msgs = <<>> \/ Head(msgs).content.kind = "enc"
        THEN [rest |-> msgs, tx |-> out, shown |-> scr]
        ELSE Drain(g, sk, Tail(msgs),
                   out \o AutoSeen(g, sk, Head(msgs)),
                   Append(scr, Rendered(g, Head(msgs), NoResult)))

\* ---- user events ----------------------------------------------------------
\* activate() while no password is held shows the password modal
Activate ==
    /\ gc.sessionPassword = Null
    /\ ~ gc.modal
    /\ gc' = [gc EXCEPT !.modal = TRUE, !.active = TRUE]
    /\ tx' = <<>> /\ shown' = <<>>
    /\ clast' = CStep("activate", NoJob)
    /\ UNCHANGED <<socks, jobs, cenv, relay, timers, cry>>
    /\ Observe

\* handlePasswordSubmit() with an alias and a password typed in the modal
HandlePasswordSubmit(alias, pw, to) ==
    /\ gc.modal
    \* aliases and passwords are interchangeable: the first session is a's
    /\ socks[1] = "unused" => alias = "a" /\ pw = "p"
    /\ LET g == [gc EXCEPT !.userId = alias, !.sessionPassword = pw,
                           !.recipientId = to, !.modal = FALSE]
       IN /\ CanConnect(g, socks)
          /\ gc' = ConnectWebSocket(g, socks).gc
          /\ socks' = ConnectWebSocket(g, socks).socks
    /\ tx' = <<>> /\ shown' = <<>>
    /\ clast' = CStep("submit", NoJob)
    /\ UNCHANGED <<jobs, cenv, relay, timers, cry>>
    /\ Observe

\* handleSend() up to await encryptWithPassword(text, sessionPassword)
HandleSend(text, typed) ==
    /\ cenv.send > 0
    /\ gc.sessionPassword # Null /\ gc.userId # Null
    /\ Recipient(gc, typed) # Null
    /\ LET j == Job(cenv.nextJob, "encrypt", text, "text",
                    EncryptWithPassword(text, gc.sessionPassword),
                    gc.sessionPassword, <<>>)
       IN /\ jobs' = jobs \cup {j}
          /\ clast' = CStep("handleSend", j)
    /\ gc' = [gc EXCEPT !.recipientId = Recipient(gc, typed)]
    /\ cenv' = [cenv EXCEPT !.send = @ - 1, !.nextJob = @ + 1]
    /\ tx' = <<>> /\ shown' = <<>>
    /\ UNCHANGED <<socks, relay, timers, cry>>
    /\ Observe

\* handlePhotoSelected / the onstop of stopRecording, for a file within
\* MAX_MEDIA_BYTES, up to await fileToBase64(file) / blobToBase64(blob)
MediaPicked(mediaType, data, typed) ==
    /\ cenv.send > 0
    /\ Recipient(gc, typed) # Null
    /\ LET j == Job(cenv.nextJob, "read", data, mediaType, NoContent, "", <<>>)
       IN /\ jobs' = jobs \cup {j}
          /\ clast' = CStep("media", j)
    /\ gc' = [gc EXCEPT !.recipientId = Recipient(gc, typed)]
    /\ cenv' = [cenv EXCEPT !.send = @ - 1, !.nextJob = @ + 1]
    /\ tx' = <<>> /\ shown' = <<>>
    /\ UNCHANGED <<socks, relay, timers, cry>>
    /\ Observe

HandlePhotoSelected(data, typed) == MediaPicked("image", data, typed)

StopRecording(data, typed) == MediaPicked("audio", data, typed)

\* destroy()
Destroy ==
    /\ cenv.destroy > 0
    /\ cenv' = [cenv EXCEPT !.destroy = @ - 1]
    /\ socks' = IF gc.ws # NoSock /\ socks[gc.ws] \in {"connecting", "open"}
                    THEN [socks EXCEPT ![gc.ws] = "closing"]
                    ELSE socks
    /\ timers' = ClearTimeout(timers, gc.reconnectTimer)
    /\ gc' = [gc EXCEPT !.reconnectTimer = 0, !.ws = NoSock,
                        !.sessionPassword = Null, !.userId = Null,
                        !.recipientId = Null, !.isConnected = FALSE,
                        !.reconnectAttempts = 0, !.active = FALSE]
    /\ tx' = <<>> /\ shown' = <<>>
    /\ clast' = CStep("destroy", NoJob)
    /\ UNCHANGED <<jobs, relay, cry>>
    /\ Observe

\* variant: a deactivate() that ends the session as destroy() does
DeactivateEndsSession ==
    /\ gc.active
    /\ gc' = [gc EXCEPT !.active = FALSE, !.sessionPassword = Null, !.userId = Null,
                        !.recipientId = Null]
    /\ tx' = <<>> /\ shown' = <<>>
    /\ clast' = CStep("deactivate", NoJob)
    /\ UNCHANGED <<socks, jobs, cenv, relay, timers, cry>>
    /\ Observe

\* Escape -> switchToWapnation() -> GhostChat.deactivate(): the chat is
\* hidden and the watermark stopped
Deactivate ==
    /\ gc.active
    /\ gc' = [gc EXCEPT !.active = FALSE]
    /\ tx' = <<>> /\ shown' = <<>>
    /\ clast' = CStep("deactivate", NoJob)
    /\ UNCHANGED <<socks, jobs, cenv, relay, timers, cry>>
    /\ Observe

\* switchToGhost() -> GhostChat.activate() while a password is held: the
\* chat is shown again, no modal
Reactivate ==
    /\ ~ gc.active
    /\ gc.sessionPassword # Null
    /\ gc' = [gc EXCEPT !.active = TRUE]
    /\ tx' = <<>> /\ shown' = <<>>
    /\ clast' = CStep("activate", NoJob)
    /\ UNCHANGED <<socks, jobs, cenv, relay, timers, cry>>
    /\ Observe

\* ---- socket and timer events ---------------------------------------------
\* 'open' listener: ws.send(register) goes through the module variable ws,
\* which throws when ws is null or names a socket that is still CONNECTING
SocketOpen(s) ==
    /\ socks[s] = "connecting"
    /\ socks' = [socks EXCEPT ![s] = "open"]
    /\ gc' = [gc EXCEPT !.isConnected = TRUE, !.reconnectAttempts = 0]
    /\ tx' = Sent(gc, socks', RegisterFrame(gc.userId))
    /\ shown' = <<>>
    /\ clast' = CStep("open", NoJob)
    /\ UNCHANGED <<jobs, cenv, relay, timers, cry>>
    /\ Observe

\* a 'close' listener that does not call scheduleReconnect()
SocketCloseOnly(s) ==
    /\ socks[s] \in {"connecting", "open", "closing"}
    /\ socks' = [socks EXCEPT ![s] = "closed"]
    /\ gc' = [gc EXCEPT !.isConnected = FALSE]
    /\ tx' = <<>> /\ shown' = <<>>
    /\ clast' = CStep("close", NoJob)
    /\ UNCHANGED <<jobs, cenv, relay, timers, cry>>
    /\ Observe

\* the socket fails to open, is closed by the peer, or completes the
\* close that destroy() started: 'close' listener
SocketClose(s) ==
    /\ socks[s] \in {"connecting", "open", "closing"}
    /\ socks' = [socks EXCEPT ![s] = "closed"]
    /\ gc' = ScheduleReconnect([gc EXCEPT !.isConnected = FALSE], timers).gc
    /\ timers' = ScheduleReconnect([gc EXCEPT !.isConnected = FALSE], timers).timers
    /\ tx' = <<>> /\ shown' = <<>>
    /\ clast' = CStep("close", NoJob)
    /\ UNCHANGED <<jobs, cenv, relay, cry>>
    /\ Observe

\* the timer callback without its test of sessionPassword and userId
TimerFiresAlways(t) ==
    /\ t \in timers
    /\ timers' = timers \ {t}
    /\ LET g == [gc EXCEPT !.reconnectTimer = 0]
       IN /\ CanConnect(g, socks)
          /\ gc' = ConnectWebSocket(g, socks).gc
          /\ socks' = ConnectWebSocket(g, socks).socks
    /\ tx' = <<>> /\ shown' = <<>>
    /\ clast' = CStep("timer", NoJob)
    /\ UNCHANGED <<jobs, cenv, relay, cry>>
    /\ Observe

\* a pending timer fires: reconnectTimer = null, then connectWebSocket()
\* when a password and an identity are held
TimerFires(t) ==
    /\ t \in timers
    /\ timers' = timers \ {t}
    /\ LET g == [gc EXCEPT !.reconnectTimer = 0]
       IN IF g.sessionPassword # Null /\ g.userId # Null
              THEN /\ CanConnect(g, socks)
                   /\ gc' = ConnectWebSocket(g, socks).gc
                   /\ socks' = ConnectWebSocket(g, socks).socks
              ELSE gc' = g /\ socks' = socks
    /\ tx' = <<>> /\ shown' = <<>>
    /\ clast' = CStep("timer", NoJob)
    /\ UNCHANGED <<jobs, cenv, relay, cry>>
    /\ Observe

\* the messages a frame may carry: ids in the order the relay made them
InMessage(id, from, to, content) ==
    [id |-> id, from |-> from, to |-> to, content |-> content, mediaType |-> "text"]

Payloads == {EncryptWithPassword(t, w) : t \in Texts, w \in Passwords} \cup {Garbage}

\* 'message' listener for new_message (one message) and pending_messages
\* (a batch), up to the first await on a decryption that suspends
OnMessage(s, type, msgs) ==
    /\ socks[s] = "open"
    /\ cenv.incoming >= Len(msgs)
    /\ LET d == Drain(gc, socks, msgs, <<>>, <<>>)
           j == Job(cenv.nextJob, "decrypt", "", "", NoContent, gc.sessionPassword, d.rest)
       IN /\ tx' = d.tx
          /\ shown' = d.shown
          /\ jobs' = IF d.rest # <<>> THEN jobs \cup {j} ELSE jobs
          /\ clast' = CStep(type, [j EXCEPT !.msgs = msgs])
    /\ cenv' = [cenv EXCEPT !.incoming = @ - Len(msgs), !.nextJob = @ + 1,
                            !.nextMsg = @ + Len(msgs)]
    /\ UNCHANGED <<gc, socks, relay, timers, cry>>
    /\ Observe

\* ---- continuations ---------------------------------------------------------
\* the FileReader has the data URL: encryptWithPassword(base64, sessionPassword)
ReadDone(j) ==
    /\ j \in jobs /\ j.kind = "read"
    /\ LET j2 == [j EXCEPT !.kind = "encrypt", !.pw = gc.sessionPassword,
                           !.content = EncryptWithPassword(j.input, gc.sessionPassword)]
       IN /\ jobs' = (jobs \ {j}) \cup {j2}
          /\ clast' = CStep("readDone", j2)
    /\ tx' = <<>> /\ shown' = <<>>
    /\ UNCHANGED <<gc, socks, cenv, relay, timers, cry>>
    /\ Observe

\* encryptWithPassword has resolved: sendToServer(encrypted, mediaType),
\* then addMessage(input, mediaType, 'sent', null)
EncryptDone(j) ==
    /\ j \in jobs /\ j.kind = "encrypt"
    /\ jobs' = jobs \ {j}
    /\ tx' = Sent(gc, socks, SendMessageFrame(gc.recipientId, j.content, j.mediaType))
    /\ shown' = <<AddMessage(j.input, j.mediaType, "sent", 0, "", "")>>
    /\ clast' = CStep("encryptDone", j)
    /\ UNCHANGED <<gc, socks, cenv, relay, timers, cry>>
    /\ Observe

\* decryptWithPassword has settled for the first message of the job: the
\* rest of handleIncomingMessage, then the loop goes on
DecryptDone(j) ==
    /\ j \in jobs /\ j.kind = "decrypt"
    /\ LET m == Head(j.msgs)
           res == DecryptWithPassword(m.content, j.pw)
           d == Drain(gc, socks, Tail(j.msgs),
                      AutoSeen(gc, socks, m), <<Rendered(gc, m, res)>>)
           j2 == [j EXCEPT !.msgs = d.rest, !.pw = gc.sessionPassword]
       IN /\ tx' = d.tx
          /\ shown' = d.shown
          /\ jobs' = IF d.rest # <<>> THEN (jobs \ {j}) \cup {j2} ELSE jobs \ {j}
          /\ clast' = CStep("decryptDone", j)
    /\ UNCHANGED <<gc, socks, cenv, relay, timers, cry>>
    /\ Observe

\* ---- specification of the client -------------------------------------------
\* what happens to the client in one run: how many sends, incoming
\* messages and destroy() calls; each profile stretches one of them
ClientProfiles ==
    { [send |-> MaxSends, incoming |-> 0, destroy |-> 0, sockets |-> 2,
        nextJob |-> 1, nextMsg |-> 1],
      [send |-> 0, incoming |-> MaxIncoming, destroy |-> 0, sockets |-> 2,
        nextJob |-> 1, nextMsg |-> 1],
      [send |-> 1, incoming |-> 1, destroy |-> MaxDestroys, sockets |-> 2,
        nextJob |-> 1, nextMsg |-> 1] }

InitClient ==
    /\ RelayInit
    /\ env = [reg |-> 1, msg |-> 1, seen |-> 1, err |-> 0, media |-> {""}]
    /\ SessionIdle
    /\ cenv \in ClientProfiles
    /\ cry = [phase |-> "idle"]

\* the frames the relay may send: one message, or a batch of up to two
Batches(n) ==
    IF n = 1
        THEN {<<InMessage(cenv.nextMsg, f, t, p)>> :
                 f \in Aliases, t \in Aliases, p \in Payloads}
        ELSE {<<InMessage(cenv.nextMsg, f1, t, p1), InMessage(cenv.nextMsg + 1, f2, t, p2)>> :
                 f1 \in Aliases, f2 \in Aliases, t \in Aliases,
                 p1 \in Payloads, p2 \in Payloads}

NextClient ==
    \/ Activate
    \/ \E alias \in Aliases : \E pw \in Passwords : \E to \in Aliases \cup {Null} :
          HandlePasswordSubmit(alias, pw, to)
    \/ \E text \in Texts : \E typed \in Aliases \cup {Null} : HandleSend(text, typed)
    \/ \E data \in Texts : \E typed \in Aliases \cup {Null} : HandlePhotoSelected(data, typed)
    \/ \E data \in Texts : \E typed \in Aliases \cup {Null} : StopRecording(data, typed)
    \/ Destroy
    \/ \E s \in Socks : SocketOpen(s)
    \/ \E s \in Socks : SocketClose(s)
    \/ \E t \in timers : TimerFires(t)
    \/ \E s \in Socks : \E msgs \in Batches(1) : OnMessage(s, "new_message", msgs)
    \/ \E s \in Socks : \E n \in 1..2 : \E msgs \in Batches(n) :
          OnMessage(s, "pending_messages", msgs)
    \/ \E j \in jobs : ReadDone(j)
    \/ \E j \in jobs : EncryptDone(j)
    \/ \E j \in jobs : DecryptDone(j)

SpecClient == InitClient /\ [][NextClient]_vars

\* ---- the connection's life cycle alone ------------------------------------
\* a run in which the connection fails again and again: no message is sent
\* or received, the session may be ended once
InitReconnect ==
    /\ RelayInit
    /\ env = [reg |-> 1, msg |-> 1, seen |-> 1, err |-> 0, media |-> {""}]
    /\ SessionIdle
    /\ cenv = [send |-> 0, incoming |-> 0, destroy |-> MaxDestroys,
               sockets |-> MaxSockets, nextJob |-> 1, nextMsg |-> 1]
    /\ cry = [phase |-> "idle"]

NextReconnect ==
    \/ Activate
    \/ \E alias \in Aliases : \E pw \in Passwords : \E to \in Aliases \cup {Null} :
          HandlePasswordSubmit(alias, pw, to)
    \/ Destroy
    \/ \E s \in Socks : SocketOpen(s)
    \/ \E s \in Socks : SocketClose(s)
    \/ \E t \in timers : TimerFires(t)

\* setTimeout() callbacks run: a pending timer fires
SpecReconnect ==
    InitReconnect /\ [][NextReconnect]_vars /\ WF_vars(\E t \in timers : TimerFires(t))

\* ---- the panic path ---------------------------------------------------------
\* a session in which the user hides the chat and shows it again while
\* the relay sends a message
InitPanic ==
    /\ RelayInit
    /\ env = [reg |-> 1, msg |-> 1, seen |-> 1, err |-> 0, media |-> {""}]
    /\ SessionIdle
    /\ cenv = [send |-> 0, incoming |-> 1, destroy |-> MaxDestroys,
               sockets |-> 2, nextJob |-> 1, nextMsg |-> 1]
    /\ cry = [phase |-> "idle"]

NextPanic ==
    \/ Activate
    \/ \E alias \in Aliases : \E pw \in Passwords : \E to \in Aliases \cup {Null} :
          HandlePasswordSubmit(alias, pw, to)
    \/ Deactivate
    \/ Reactivate
    \/ Destroy
    \/ \E s \in Socks : SocketOpen(s)
    \/ \E s \in Socks : SocketClose(s)
    \/ \E t \in timers : TimerFires(t)
    \/ \E s \in Socks : \E msgs \in Batches(1) : OnMessage(s, "new_message", msgs)
    \/ \E j \in jobs : DecryptDone(j)

SpecPanic == InitPanic /\ [][NextPanic]_vars

\* ---- the cipher modules ----------------------------------------------------
\* crypto-module.js (Node) and crypto-browser.js (Web Crypto). AES-256-GCM
\* and PBKDF2 are ideal: a key is the term of its password, salt and
\* iteration count, a ciphertext byte the term of its key, nonce, position
\* and plaintext byte, the tag the term of key, nonce and ciphertext; a
\* byte an attacker changed equals no byte an honest call computes.
IV_LENGTH == 12
AUTH_TAG_LENGTH == 16
SALT_LENGTH == 32
PBKDF2_ITERATIONS == 600000
BROWSER_PBKDF2_ITERATIONS == 100000

\* UTF-16 code units of the plaintexts: 'A', 'é', and a lone surrogate
Chars == {65, 233, 55296}
Plaintexts == UNION {[1..n -> Chars] : n \in 0..MaxPlain}

\* password arguments: strings, and null
Str(s) == [t |-> "string", s |-> s]
NullValue == [t |-> "null", s |-> "null"]
PwValues == {Str("p"), Str("q"), Str(""), NullValue}
SaltIds == 1..MaxSalts
Impls == {"node", "browser"}

\* the longest envelope: a code unit takes up to three bytes
MaxEnvelope == SALT_LENGTH + IV_LENGTH + AUTH_TAG_LENGTH + 3 * MaxPlain

\* Buffer.from(str, 'utf8') / TextEncoder.encode(str), one code unit
Utf8Of(c) ==
    IF c < 128 THEN <<c>>
    ELSE IF c < 2048 THEN <<192 + (c \div 64), 128 + (c % 64)>>
    ELSE IF c >= 55296 /\ c <= 57343 THEN <<239, 191, 189>>
    ELSE <<224 + (c \div 4096), 128 + ((c \div 64) % 64), 128 + (c % 64)>>

RECURSIVE Utf8Encode(_)
Utf8Encode(str) ==
    IF str = <<>> THEN <<>> ELSE Utf8Of(Head(str)) \o Utf8Encode(Tail(str))

RECURSIVE Utf8Decode(_)
\* buf.toString('utf8') / TextDecoder.decode(buf)
Utf8Decode(b) ==
    IF b = <<>> THEN <<>>
    ELSE IF b[1] < 128 THEN <<b[1]>> \o Utf8Decode(Tail(b))
    ELSE IF b[1] >= 192 /\ b[1] < 224 /\ Len(b) >= 2
        THEN <<(b[1] - 192) * 64 + (b[2] - 128)>> \o Utf8Decode(SubSeq(b, 3, Len(b)))
    ELSE IF b[1] >= 224 /\ b[1] < 240 /\ Len(b) >= 3
        THEN <<(b[1] - 224) * 4096 + (b[2] - 128) * 64 + (b[3] - 128)>>
             \o Utf8Decode(SubSeq(b, 4, Len(b)))
    ELSE <<65533>> \o Utf8Decode(Tail(b))

\* crypto.randomBytes(n) / getRandomBytes(n): n bytes of the draw id
RandomBytes(kind, n, id) == [i \in 1..n |-> [i |-> i, kind |-> kind, of |-> id]]

\* PBKDF2: the derived key
Pbkdf2(pw, salt, iterations) == [pw |-> pw, salt |-> salt, iter |-> iterations]

\* AES-GCM: ciphertext and tag
Ciphertext(key, iv, data) ==
    [i \in 1..Len(data) |->
        [i |-> i, kind |-> "ct", of |-> [key |-> key, iv |-> iv, b |-> data[i]]]]

AuthTag(key, iv, ct) ==
    [i \in 1..AUTH_TAG_LENGTH |->
        [i |-> i, kind |-> "tag", of |-> [key |-> key, iv |-> iv, ct |-> ct]]]

\* the plaintext byte a ciphertext byte decrypts to under key and nonce
PlainByte(c, key, iv, i) ==
    IF c.kind = "ct" /\ c.i = i /\ c.of.key = key /\ c.of.iv = iv THEN c.of.b ELSE 0

Plain(ct, key, iv) == [i \in 1..Len(ct) |-> PlainByte(ct[i], key, iv, i)]

Err(type, message) == [type |-> type, message |-> message]
NoErr == Err("", "")
NoKey == Pbkdf2("", <<>>, 0)
NoSalt == <<>>

Derived(key, salt) == [ok |-> TRUE, key |-> key, salt |-> salt, err |-> NoErr]
NotDerived(e) == [ok |-> FALSE, key |-> NoKey, salt |-> NoSalt, err |-> e]
Sealed(e) == [ok |-> TRUE, env |-> e, err |-> NoErr]
NotSealed(e) == [ok |-> FALSE, env |-> <<>>, err |-> e]
Opened(pt) == [ok |-> TRUE, pt |-> pt, err |-> NoErr]
NotOpened(e) == [ok |-> FALSE, pt |-> <<>>, err |-> e]

\* ---- crypto-module.js ------------------------------------------------------
\* deriveKey(password, salt): salt ?? crypto.randomBytes(SALT_LENGTH)
NodeDeriveKey(password, salt, fresh) ==
    IF password.t # "string" \/ password.s = ""
        THEN NotDerived(Err("TypeError", "Password must be a non-empty string."))
        ELSE LET usedSalt == IF salt = NoSalt THEN fresh ELSE salt
             IN Derived(Pbkdf2(password.s, usedSalt, PBKDF2_ITERATIONS), usedSalt)

\* encrypt(plaintext, key): Buffer.concat([iv, authTag, ciphertext])
NodeEncrypt(data, key, iv) ==
    LET ciphertext == Ciphertext(key, iv, data)
    IN iv \o AuthTag(key, iv, ciphertext) \o ciphertext

\* decrypt() that releases the plaintext without decipher.setAuthTag / final
NodeDecryptUnverified(encrypted, key) ==
    IF Len(encrypted) < IV_LENGTH + AUTH_TAG_LENGTH + 1
        THEN NotOpened(Err("TypeError", "Encrypted payload is too short or not a Buffer."))
        ELSE Opened(Plain(SubSeq(encrypted, IV_LENGTH + AUTH_TAG_LENGTH + 1, Len(encrypted)),
                          key, SubSeq(encrypted, 1, IV_LENGTH)))

\* decrypt(encrypted, key): the plaintext bytes; decipher.final() throws
\* when the tag does not verify
NodeDecrypt(encrypted, key) ==
    IF Len(encrypted) < IV_LENGTH + AUTH_TAG_LENGTH + 1
        THEN NotOpened(Err("TypeError", "Encrypted payload is too short or not a Buffer."))
        ELSE LET iv == SubSeq(encrypted, 1, IV_LENGTH)
                 authTag == SubSeq(encrypted, IV_LENGTH + 1, IV_LENGTH + AUTH_TAG_LENGTH)
                 ciphertext == SubSeq(encrypted, IV_LENGTH + AUTH_TAG_LENGTH + 1,
                                      Len(encrypted))
             IN IF authTag = AuthTag(key, iv, ciphertext)
                    THEN Opened(Plain(ciphertext, key, iv))
                    ELSE NotOpened(Err("Error",
                                       "Unsupported state or unable to authenticate data"))

\* encryptWithPassword(plaintext, password): Buffer.concat([salt, encrypted])
NodeEncryptWithPassword(plaintext, password, fresh, iv) ==
    LET d == NodeDeriveKey(password, NoSalt, fresh)
    IN IF ~ d.ok THEN NotSealed(d.err)
       ELSE Sealed(d.salt \o NodeEncrypt(Utf8Encode(plaintext), d.key, iv))

\* decryptWithPassword() whose length check also refuses 61 bytes
NodeDecryptWithPasswordOffByOne(payload, password) ==
    IF Len(payload) <= SALT_LENGTH + IV_LENGTH + AUTH_TAG_LENGTH + 1
        THEN NotOpened(Err("TypeError", "Payload is too short or not a Buffer."))
        ELSE LET salt == SubSeq(payload, 1, SALT_LENGTH)
                 encrypted == SubSeq(payload, SALT_LENGTH + 1, Len(payload))
                 d == NodeDeriveKey(password, salt, NoSalt)
             IN IF ~ d.ok THEN NotOpened(d.err)
                ELSE LET r == NodeDecrypt(encrypted, d.key)
                     IN IF r.ok THEN Opened(Utf8Decode(r.pt)) ELSE r

\* decryptWithPassword(payload, password)
NodeDecryptWithPassword(payload, password) ==
    IF Len(payload) < SALT_LENGTH + IV_LENGTH + AUTH_TAG_LENGTH + 1
        THEN NotOpened(Err("TypeError", "Payload is too short or not a Buffer."))
        ELSE LET salt == SubSeq(payload, 1, SALT_LENGTH)
                 encrypted == SubSeq(payload, SALT_LENGTH + 1, Len(payload))
                 d == NodeDeriveKey(password, salt, NoSalt)
             IN IF ~ d.ok THEN NotOpened(d.err)
                ELSE LET r == NodeDecrypt(encrypted, d.key)
                     IN IF r.ok THEN Opened(Utf8Decode(r.pt)) ELSE r

\* ---- crypto-browser.js: CryptoBrowser ---------------------------------------
RECURSIVE ToBase64(_)
\* toBase64(uint8): btoa packs every three bytes into four characters, the
\* last group padded
ToBase64(bytes) ==
    IF bytes = <<>> THEN <<>>
    ELSE IF Len(bytes) <= 3 THEN <<[g |-> bytes, pad |-> 3 - Len(bytes)]>>
    ELSE <<[g |-> SubSeq(bytes, 1, 3), pad |-> 0]>> \o ToBase64(SubSeq(bytes, 4, Len(bytes)))

RECURSIVE FromBase64(_)
\* fromBase64(str)
FromBase64(str) ==
    IF str = <<>> THEN <<>> ELSE Head(str).g \o FromBase64(Tail(str))

\* deriveKey(password, salt): enc.encode(password) takes any value, then
\* salt || getRandomBytes(SALT_LENGTH)
BrowserDeriveKey(password, salt, fresh) ==
    LET usedSalt == IF salt = NoSalt THEN fresh ELSE salt
    IN Derived(Pbkdf2(password.s, usedSalt, BROWSER_PBKDF2_ITERATIONS), usedSalt)

\* crypto.subtle.encrypt({name: 'AES-GCM', iv, tagLength}, key, data):
\* the ciphertext with the tag appended
SubtleEncrypt(key, iv, data) ==
    Ciphertext(key, iv, data) \o AuthTag(key, iv, Ciphertext(key, iv, data))

\* crypto.subtle.decrypt: rejects with OperationError when the tag, the
\* last tagLength bits, does not verify
SubtleDecrypt(key, iv, data) ==
    LET n == Len(data) - AUTH_TAG_LENGTH
    IN IF n < 0 \/ SubSeq(data, n + 1, Len(data)) # AuthTag(key, iv, SubSeq(data, 1, n))
           THEN NotOpened(Err("OperationError", ""))
           ELSE Opened(Plain(SubSeq(data, 1, n), key, iv))

\* encryptWithPassword(plaintext, password)
BrowserEncryptWithPassword(plaintext, password, fresh, iv) ==
    LET d == BrowserDeriveKey(password, NoSalt, fresh)
    IN Sealed(ToBase64(d.salt \o iv \o SubtleEncrypt(d.key, iv, Utf8Encode(plaintext))))

\* decryptWithPassword(payload, password)
BrowserDecryptWithPassword(payload, password) ==
    LET data == FromBase64(payload)
    IN IF Len(data) < SALT_LENGTH + IV_LENGTH + AUTH_TAG_LENGTH + 1
           THEN NotOpened(Err("Error", "Payload too short."))
           ELSE LET salt == SubSeq(data, 1, SALT_LENGTH)
                    iv == SubSeq(data, SALT_LENGTH + 1, SALT_LENGTH + IV_LENGTH)
                    ciphertext == SubSeq(data, SALT_LENGTH + IV_LENGTH + 1, Len(data))
                    d == BrowserDeriveKey(password, salt, NoSalt)
                    r == SubtleDecrypt(d.key, iv, ciphertext)
                IN IF r.ok THEN Opened(Utf8Decode(r.pt)) ELSE r

\* ---- one use of a cipher module --------------------------------------------
DeriveKeyOf(impl, password, salt, fresh) ==
    IF impl = "node" THEN NodeDeriveKey(password, salt, fresh)
    ELSE BrowserDeriveKey(password, salt, fresh)

EncryptOf(impl, plaintext, password, fresh, iv) ==
    IF impl = "node" THEN NodeEncryptWithPassword(plaintext, password, fresh, iv)
    ELSE BrowserEncryptWithPassword(plaintext, password, fresh, iv)

DecryptOf(impl, payload, password) ==
    IF impl = "node" THEN NodeDecryptWithPassword(payload, password)
    ELSE BrowserDecryptWithPassword(payload, password)

\* the cryptographic calls decryptWithPassword(payload, password) makes, in
\* order, up to the one that throws
NodeDecryptCalls(payload, password) ==
    IF Len(payload) < SALT_LENGTH + IV_LENGTH + AUTH_TAG_LENGTH + 1 THEN <<>>
    ELSE IF ~ NodeDeriveKey(password, SubSeq(payload, 1, SALT_LENGTH), NoSalt).ok
        THEN <<"deriveKey">>
    ELSE IF Len(payload) - SALT_LENGTH < IV_LENGTH + AUTH_TAG_LENGTH + 1
        THEN <<"deriveKey", "pbkdf2", "decrypt">>
    ELSE <<"deriveKey", "pbkdf2", "decrypt", "createDecipheriv", "final">>

BrowserDecryptCalls(payload, password) ==
    IF Len(FromBase64(payload)) < SALT_LENGTH + IV_LENGTH + AUTH_TAG_LENGTH + 1 THEN <<>>
    ELSE <<"deriveKey", "importKey", "subtle.deriveKey", "subtle.decrypt">>

DecryptCallsOf(impl, payload, password) ==
    IF impl = "node" THEN NodeDecryptCalls(payload, password)
    ELSE BrowserDecryptCalls(payload, password)

\* the bytes of an envelope, and the envelope of bytes
Raw(impl, e) == IF impl = "node" THEN e ELSE FromBase64(e)
Wire(impl, bytes) == IF impl = "node" THEN bytes ELSE ToBase64(bytes)

\* byte i changed in transit
Flip(bytes, i) == [bytes EXCEPT ![i] = [@ EXCEPT !.kind = "flipped"]]

CryptoCall(phase, impl, P, W) ==
    [phase |-> phase, impl |-> impl, P |-> P, W |-> W, given |-> NoSalt,
     sealed |-> NotSealed(NoErr), env |-> <<>>, how |-> "", W2 |-> Str(""),
     res |-> NotOpened(NoErr), d1 |-> NotDerived(NoErr), d2 |-> NotDerived(NoErr),
     calls |-> <<>>]

\* encryptWithPassword(P, W) is called
CryptoSeal(impl, P, W) ==
    /\ cry.phase = "idle"
    /\ LET r == EncryptOf(impl, P, W, RandomBytes("salt", SALT_LENGTH, 1),
                          RandomBytes("iv", IV_LENGTH, 1))
       IN cry' = [CryptoCall(IF r.ok THEN "sealed" ELSE "failed", impl, P, W)
                     EXCEPT !.sealed = r, !.env = r.env, !.how = "intact"]
    /\ UNCHANGED <<relay, session>>

\* one byte of the envelope is changed in transit
CryptoTamper(i) ==
    /\ cry.phase = "sealed"
    /\ i \in 1..Len(Raw(cry.impl, cry.env))
    /\ cry' = [cry EXCEPT !.phase = "altered", !.how = "flipped",
                          !.env = Wire(cry.impl, Flip(Raw(cry.impl, cry.env), i))]
    /\ UNCHANGED <<relay, session>>

\* the envelope is cut to its first n bytes
CryptoTruncate(n) ==
    /\ cry.phase = "sealed"
    /\ n < Len(Raw(cry.impl, cry.env))
    /\ cry' = [cry EXCEPT !.phase = "altered", !.how = "truncated",
                          !.env = Wire(cry.impl, SubSeq(Raw(cry.impl, cry.env), 1, n))]
    /\ UNCHANGED <<relay, session>>

\* decryptWithPassword(envelope, W2) is called
CryptoOpen(W2) ==
    /\ cry.phase \in {"sealed", "altered"}
    /\ cry' = [cry EXCEPT !.phase = "opened", !.W2 = W2,
                          !.res = DecryptOf(cry.impl, cry.env, W2),
                          !.calls = DecryptCallsOf(cry.impl, cry.env, W2)]
    /\ UNCHANGED <<relay, session>>

\* deriveKey(W, salt) is called twice with the same arguments; without a
\* salt each call draws its own
CryptoDeriveKey(impl, W, given, fresh1, fresh2) ==
    /\ cry.phase = "idle"
    /\ cry' = [CryptoCall("derived", impl, <<>>, W)
                  EXCEPT !.given = given,
                         !.d1 = DeriveKeyOf(impl, W, given, fresh1),
                         !.d2 = DeriveKeyOf(impl, W, given, fresh2)]
    /\ UNCHANGED <<relay, session>>

InitCrypto ==
    /\ RelayInit
    /\ env = [reg |-> 1, msg |-> 1, seen |-> 1, err |-> 0, media |-> {""}]
    /\ SessionIdle
    /\ cenv = NoInput
    /\ cry = CryptoCall("idle", "node", <<>>, Str(""))

NextCrypto ==
    \/ \E impl \in Impls : \E P \in Plaintexts : \E W \in PwValues : CryptoSeal(impl, P, W)
    \/ \E i \in 1..MaxEnvelope : CryptoTamper(i)
    \/ \E n \in 0..MaxEnvelope : CryptoTruncate(n)
    \/ \E W2 \in PwValues : CryptoOpen(W2)
    \/ \E impl \in Impls : \E W \in PwValues :
          \E given \in {NoSalt} \cup {RandomBytes("salt", SALT_LENGTH, s) : s \in SaltIds} :
             \E s1 \in SaltIds : \E s2 \in SaltIds :
                CryptoDeriveKey(impl, W, given, RandomBytes("salt", SALT_LENGTH, s1),
                                RandomBytes("salt", SALT_LENGTH, s2))

SpecCrypto == InitCrypto /\ [][NextCrypto]_vars

\* ---- crypto-module.js: SessionKeyManager -----------------------------------
KEY_LENGTH == 32

\* this.#key = null
NoBuffer == <<>>

\* a Buffer after fill(0)
Zeroed(buf) == [i \in 1..Len(buf) |-> [i |-> i, kind |-> "zero", of |-> 0]]

Returned(v) == [ok |-> TRUE, val |-> v, err |-> NoErr]
Thrown(e) == [ok |-> FALSE, val |-> NoBuffer, err |-> e]

\* one SessionKeyManager: its private field #key, the key the constructor
\* drew, the calls made on it so far, the outcome of the last call, and
\* the Buffer the last successful `key` access handed out (the getter
\* returns #key itself, no copy)
Skm(key, made, log, res, held) ==
    [phase |-> "skm", key |-> key, made |-> made, log |-> log, res |-> res,
     held |-> held]

\* get key(): throws once #key is null
SkmGetKey ==
    /\ cry.phase = "skm"
    /\ Len(cry.log) < MaxKeyOps
    /\ cry' = IF cry.key = NoBuffer
                  THEN [cry EXCEPT !.log = Append(@, "key"),
                                   !.res = Thrown(Err("Error",
                                                      "Session key has been destroyed."))]
                  ELSE [cry EXCEPT !.log = Append(@, "key"),
                                   !.res = Returned(cry.key),
                                   !.held = cry.key]
    /\ UNCHANGED <<relay, session>>

\* variant: destroy() that zeroes the key and keeps the field
SkmDestroyFillOnly ==
    /\ cry.phase = "skm"
    /\ Len(cry.log) < MaxKeyOps
    /\ cry' = [cry EXCEPT !.log = Append(@, "destroy"),
                          !.res = Returned(NoBuffer),
                          !.key = Zeroed(@),
                          !.held = Zeroed(@)]
    /\ UNCHANGED <<relay, session>>

\* destroy(): if (this.#key) { this.#key.fill(0); this.#key = null; }
SkmDestroy ==
    /\ cry.phase = "skm"
    /\ Len(cry.log) < MaxKeyOps
    /\ cry' = IF cry.key # NoBuffer
                  THEN [cry EXCEPT !.log = Append(@, "destroy"),
                                   !.res = Returned(NoBuffer),
                                   !.key = NoBuffer,
                                   !.held = Zeroed(@)]
                  ELSE [cry EXCEPT !.log = Append(@, "destroy"),
                                   !.res = Returned(NoBuffer)]
    /\ UNCHANGED <<relay, session>>

\* new SessionKeyManager(): #key = crypto.randomBytes(KEY_LENGTH)
InitKeys ==
    /\ RelayInit
    /\ env = [reg |-> 1, msg |-> 1, seen |-> 1, err |-> 0, media |-> {""}]
    /\ SessionIdle
    /\ cenv = NoInput
    /\ \E id \in SaltIds :
          cry = Skm(RandomBytes("key", KEY_LENGTH, id), RandomBytes("key", KEY_LENGTH, id),
                    <<>>, Returned(NoBuffer), NoBuffer)

NextKeys ==
    \/ SkmGetKey
    \/ SkmDestroy

SpecKeys == InitKeys /\ [][NextKeys]_vars

\* ---- the size of a media message ---------------------------------------------
\* handlePhotoSelected / the recorder's onstop, encryptWithPassword,
\* sendToServer, and the relay's WebSocketServer: lengths only
MAX_MEDIA_BYTES == 5 * 1024 * 1024
MaxPayload == 5 * 1024 * 1024

\* file.size / blob.size: multiples of 64 KiB up to and beyond
\* MAX_MEDIA_BYTES, and the two sizes after each
FileSizes == {k * (64 * 1024) + d : k \in 0..MaxChunks, d \in 0..2}

\* btoa / readAsDataURL: four characters for every three bytes, padded
Base64Len(n) == 4 * ((n + 2) \div 3)

\* reader.result of readAsDataURL: 'data:image/png;base64,' for a PNG
\* file, 'data:audio/webm;base64,' for the recorded Blob, then the base64
\* of the bytes
DataUrlLen(mediaType, size) ==
    (IF mediaType = "image" THEN 22 ELSE 23) + Base64Len(size)

\* encryptWithPassword(base64, sessionPassword): the data URL is ASCII, one
\* byte each; toBase64(salt || iv || ciphertext || tag)
EnvelopeLen(plainLen) ==
    Base64Len(SALT_LENGTH + IV_LENGTH + plainLen + AUTH_TAG_LENGTH)

\* JSON.stringify({type: 'send_message', to, content, mediaType}) with
\* mediaType 'image' or 'audio': 64 characters around to and content
FrameLen(toLen, contentLen) == 64 + toLen + contentLen

MediaRun(phase, mediaType, size, toLen, dataUrl, content, frame) ==
    [phase |-> phase, mediaType |-> mediaType, size |-> size, toLen |-> toLen,
     dataUrl |-> dataUrl, content |-> content, frame |-> frame]

\* a file is picked or a recording stopped: refused when larger than
\* MAX_MEDIA_BYTES
MediaSelect(mediaType, size, toLen) ==
    /\ cry.phase = "idle"
    /\ cry' = MediaRun(IF size > MAX_MEDIA_BYTES THEN "refused" ELSE "picked",
                       mediaType, size, toLen, 0, 0, 0)
    /\ UNCHANGED <<relay, session>>

\* await fileToBase64(file) / blobToBase64(blob)
MediaRead ==
    /\ cry.phase = "picked"
    /\ cry' = [cry EXCEPT !.phase = "read",
                          !.dataUrl = DataUrlLen(cry.mediaType, cry.size)]
    /\ UNCHANGED <<relay, session>>

\* await CryptoBrowser.encryptWithPassword(base64, sessionPassword)
MediaEncrypt ==
    /\ cry.phase = "read"
    /\ cry' = [cry EXCEPT !.phase = "sealed", !.content = EnvelopeLen(cry.dataUrl)]
    /\ UNCHANGED <<relay, session>>

\* sendToServer(encrypted, mediaType) on an open socket
MediaSend ==
    /\ cry.phase = "sealed"
    /\ cry' = [cry EXCEPT !.phase = "framed", !.frame = FrameLen(cry.toLen, cry.content)]
    /\ UNCHANGED <<relay, session>>

\* the relay's receiver: a message longer than maxPayload fails with
\* status 1009 and the connection is closed before the handler sees it
RelayReceives ==
    /\ cry.phase = "framed"
    /\ cry' = [cry EXCEPT !.phase = IF cry.frame > MaxPayload THEN "closed" ELSE "accepted"]
    /\ UNCHANGED <<relay, session>>

InitFrames ==
    /\ RelayInit
    /\ env = [reg |-> 1, msg |-> 1, seen |-> 1, err |-> 0, media |-> {""}]
    /\ SessionIdle
    /\ cenv = NoInput
    /\ cry = MediaRun("idle", "", 0, 0, 0, 0, 0)

NextFrames ==
    \/ \E mediaType \in {"image", "audio"} : \E size \in FileSizes : \E toLen \in 1..MaxAlias :
          MediaSelect(mediaType, size, toLen)
    \/ MediaRead
    \/ MediaEncrypt
    \/ MediaSend
    \/ RelayReceives

SpecFrames == InitFrames /\ [][NextFrames]_vars

\* ---- helpers of the properties ------------------------------------------
Range(s) == {s[i] : i \in 1..Len(s)}
HasId(s, id) == \E i \in 1..Len(s) : s[i].id = id
CountId(s, id) == Cardinality({i \in 1..Len(s) : s[i].id = id})
SenderSet(s) == {s[i].from : i \in 1..Len(s)}

\* the connection that holds identity k by the last-registration-wins rule:
\* the last one to register k, while it is open and still bound to k
Holder(k) ==
    IF lastReg[k] # NoConn /\ ready[lastReg[k]] = "open" /\ userId[lastReg[k]] = k
        THEN lastReg[k] ELSE NoConn

\* ---- C1 ------------------------------------------------------------------
\* C1: a message leaves Queue(k) only in a step of a seen or seen_all
\* handler that was started by a connection bound to k = message.to; in
\* every other step (live push, register and pending flush, close, seen or
\* seen_all under another identity) every queued message stays, unaltered,
\* and the only new entry is the message a send_message appends.
C1_RemovedOnlyBySeenOfRecipient ==
    [][\A k \in Ids :
         /\ \A m \in Range(queue[k]) :
               m \notin Range(queue'[k]) =>
                  /\ last'.op \in {"seen_lrem", "seen_all_del"}
                  /\ last'.task.type \in {"seen", "seen_all"}
                  /\ last'.task.key = k
                  /\ m.to = k
         /\ \A m \in Range(queue'[k]) :
               m \notin Range(queue[k]) =>
                  /\ last'.op = "send_message"
                  /\ m = last'.task.msg
                  /\ m.to = k
      ]_vars

\* a message was pushed live to its recipient and is still queued
C1_Witness ==
    /\ last.op = "message_sent"
    /\ Live(last.task.msg.to)
    /\ OfType(outbox[clients[last.task.msg.to]], "new_message") # <<>>
    /\ HasId(queue[last.task.msg.to], last.task.msg.id)

\* ---- C2 ------------------------------------------------------------------
\* C2: when a send_message is accepted (message_sent is sent) the
\* recipient's queue holds exactly one entry with the new id; when a
\* seen(id) that removed the message completes, the caller's queue holds no
\* entry with that id and the sender's connection, if live, gets exactly
\* one message_seen for the id.
C2_SendThenSeen ==
    [][/\ last'.op = "message_sent" =>
             CountId(queue'[last'.task.msg.to], last'.task.msg.id) = 1
       /\ last'.op = "seen_done" =>
             /\ ~ HasId(queue'[last'.task.key], last'.task.mid)
             /\ Live(last'.task.msg.from) =>
                   Len(SelectSeq(outbox'[clients[last'.task.msg.from]],
                                 LAMBDA f : f.type = "message_seen"
                                            /\ f.mid = last'.task.mid)) = 1
      ]_vars

\* ---- C3 ------------------------------------------------------------------
\* C3: no message id is reported removed twice: an id acked deleted:true
\* or counted by a seen_all is not acked or counted again, and no id gets
\* a second message_seen.
C3_RemovalReportedOnce ==
    [][LET ackedNow == IdsWhere(outbox', LAMBDA f : f.type = "ack_seen" /\ f.deleted)
           notifiedNow == IdsWhere(outbox', LAMBDA f : f.type = "message_seen")
           countedNow == IF last'.op = "seen_all_done"
                             THEN {last'.task.snap[i].id : i \in 1..Len(last'.task.snap)}
                             ELSE {}
       IN /\ ackedNow \cap (hist.acked \cup hist.counted) = {}
          /\ countedNow \cap (hist.acked \cup hist.counted) = {}
          /\ ackedNow \cap countedNow = {}
          /\ notifiedNow \cap hist.notified = {}
      ]_vars

\* ---- C4 ------------------------------------------------------------------
\* C4: when a message is accepted and its recipient identity is held by a
\* live connection, that connection gets the message in this step's live
\* push or has a register parked whose batch contains it; when no live
\* connection holds the identity the message is in the queue; and a
\* register reads the whole queue of its identity into its batch.
C4_NoAcceptedMessageLost ==
    /\ last.op = "message_sent" =>
          LET m == last.task.msg
              c == Holder(m.to)
          IN IF c # NoConn
                 THEN \/ \E i \in 1..Len(outbox[c]) :
                            outbox[c][i].type = "new_message" /\ outbox[c][i].mid = m.id
                      \/ \E i \in 1..Len(pending) :
                            /\ pending[i].type = "register"
                            /\ pending[i].conn = c
                            /\ HasId(pending[i].snap, m.id)
                 ELSE HasId(queue[m.to], m.id)
    /\ last.op = "register" => last.task.snap = queue[last.task.key]

\* ---- C5 ------------------------------------------------------------------
\* C5: a register reads the whole queue of its identity, in queue order;
\* its flush sends the connection exactly one pending_messages frame with
\* those messages and count = their number when there are any, no frame
\* when there are none, nothing to any other connection, and leaves every
\* queue as it was.
C5_PendingFlush ==
    [][/\ last'.op = "register" => last'.task.snap = queue[last'.task.key]
       /\ last'.op = "deliverPending" =>
             LET t == last'.task
                 batches == OfType(outbox'[t.conn], "pending_messages")
             IN /\ queue' = queue
                /\ \A c \in Conns \ {t.conn} : outbox'[c] = <<>>
                /\ Len(outbox'[t.conn]) = Len(batches)
                /\ IF t.snap # <<>>
                       THEN /\ Len(batches) = 1
                            /\ batches[1].msgs = t.snap
                            /\ batches[1].count = Len(t.snap)
                       ELSE Len(batches) = 0
      ]_vars

\* a flush of a queue holding two messages
C5_Witness ==
    /\ last.op = "deliverPending"
    /\ Len(last.task.snap) = 2
    /\ Len(OfType(outbox[last.task.conn], "pending_messages")) = 1

\* ---- C6 ------------------------------------------------------------------
\* C6: a seen_all that read N messages from K distinct senders empties the
\* caller's queue when it deletes the key; when it completes, each
\* connection gets one all_messages_seen with count N per live sender
\* identity it stands for, and the caller one ack_seen_all with
\* deletedCount N.
C6_SeenAllReport ==
    [][/\ last'.op = "seen_all_del" => queue'[last'.task.key] = <<>>
       /\ last'.op = "seen_all_done" =>
             LET t == last'.task
                 n == Len(t.snap)
             IN /\ \A c \in Conns :
                      LET notes == OfType(outbox'[c], "all_messages_seen")
                          acks == OfType(outbox'[c], "ack_seen_all")
                      IN /\ Len(notes) = Cardinality({k \in SenderSet(t.snap) :
                                                       Live(k) /\ clients[k] = c})
                         /\ \A i \in 1..Len(notes) :
                               notes[i].count = n
                         /\ Len(acks) = IF c = t.conn THEN 1 ELSE 0
                         /\ \A i \in 1..Len(acks) : acks[i].count = n
                         /\ Len(outbox'[c]) = Len(notes) + Len(acks)
                /\ queue' = queue
      ]_vars

\* a seen_all of two messages from two senders, each live on its own
\* connection
C6_Witness ==
    /\ last.op = "seen_all_done"
    /\ Len(last.task.snap) = 2
    /\ Cardinality(SenderSet(last.task.snap)) = 2
    /\ \A k \in SenderSet(last.task.snap) : Live(k)
    /\ clients["a"] # clients["b"]

\* ---- C7 ------------------------------------------------------------------
\* C7: every message the seen_all deletes with the key was read into its
\* snapshot, so it is counted and its sender is notified.
C7_DrainAtomic ==
    [][last'.op = "seen_all_del" =>
          \A m \in Range(queue[last'.task.key]) : m \in Range(last'.task.snap)
      ]_vars

\* ---- C8 ------------------------------------------------------------------
\* C8: a seen(id) received while the caller's queue has no entry with that
\* id ends as not found; a seen that ends as not found answers the caller
\* with one ack_seen deleted:false carrying a reason and nothing else (no
\* error frame, no message_seen to anyone) and leaves every queue unchanged.
C8_SeenUnknownId ==
    [][/\ (last'.op = "seen" /\ ~ HasId(queue[userId[last'.task.conn]], last'.task.mid)) =>
             FindById(last'.task.snap, last'.task.mid) = NoMsg
       /\ (/\ Parked("seen", "lrange")
           /\ FindById(Head(pending).snap, Head(pending).mid) = NoMsg
           /\ pending' = Tail(pending)) =>
             /\ last'.op = "seen_not_found"
             /\ queue' = queue
             /\ \A c \in Conns \ {Head(pending).conn} : outbox'[c] = <<>>
             /\ Len(outbox'[Head(pending).conn]) = 1
             /\ LET f == outbox'[Head(pending).conn][1]
                IN /\ f.type = "ack_seen"
                   /\ f.mid = Head(pending).mid
                   /\ f.deleted = FALSE
                   /\ f.text # ""
      ]_vars

\* a seen for an id that is queued for another identity was answered
C8_Witness ==
    /\ last.op = "seen_not_found"
    /\ \E k \in Ids \ {last.task.key} : HasId(queue[k], last.task.mid)

\* ---- C9 ------------------------------------------------------------------
\* C9: the close of a connection that has been superseded in the registry
\* leaves the registry as it is.
C9_CloseOfSupersededIsNoOp ==
    [][(/\ last'.op = "close"
        /\ userId[last'.task.conn] # Null
        /\ clients[userId[last'.task.conn]] # last'.task.conn) =>
          clients' = clients
      ]_vars

\* ---- C10 -----------------------------------------------------------------
\* C10: a register maps its identity to the registering connection alone
\* and sends nothing to any connection; from then on a live push or a
\* message_seen addressed to an identity goes to the last connection that
\* registered it, if that connection is open, and to no other.
C10_LastRegistrationWins ==
    [][/\ last'.op = "register" =>
             /\ clients' = [clients EXCEPT ![last'.task.key] = last'.task.conn]
             /\ outbox' = Quiet
       /\ last'.op = "message_sent" =>
             LET k == last'.task.msg.to
             IN \A c \in Conns :
                   (c = lastReg[k] /\ ready[c] = "open")
                       <=> (OfType(outbox'[c], "new_message") # <<>>)
       /\ last'.op = "seen_done" =>
             LET k == last'.task.msg.from
             IN \A c \in Conns :
                   (c = lastReg[k] /\ ready[c] = "open")
                       <=> (OfType(outbox'[c], "message_seen") # <<>>)
      ]_vars

\* ---- C11 -----------------------------------------------------------------
\* C11: no two identities of the registry map to the same connection, also
\* after a registered connection registers again under another userId.
C11_OneIdentityPerConnection ==
    \A k1 \in Ids : \A k2 \in Ids \ {k1} :
        clients[k1] # NoConn => clients[k1] # clients[k2]

\* ---- C12 -----------------------------------------------------------------
\* C12: once the close of a connection has been handled no registry entry
\* maps an identity to that connection.
C12_ClosedConnectionUnregistered ==
    \A c \in Conns : ready[c] = "closed" => \A k \in Ids : clients[k] # c

\* ---- C13 -----------------------------------------------------------------
\* C13: a frame that starts no store command (unparseable, of no known
\* type, a required field missing, or send_message, seen or seen_all
\* before any register) is answered with exactly one error frame on its
\* own connection and with nothing else, and leaves the registry, the
\* queues, the connection's identity and its readyState as they were.
C13_InvalidFrameGetsOneError ==
    [][last'.op \in {"error", "throw"} =>
          LET c == last'.task.conn
          IN /\ Len(outbox'[c]) = 1
             /\ outbox'[c][1].type = "error"
             /\ \A d \in Conns \ {c} : outbox'[d] = <<>>
             /\ clients' = clients
             /\ queue' = queue
             /\ userId' = userId
             /\ ready' = ready /\ ready'[c] = "open"
             /\ pending' = pending
      ]_vars

\* ---- C14 -----------------------------------------------------------------
\* C14: an accepted send_message appends its message, under a fresh id, to
\* the recipient's queue before anything is sent; its handler then resumes
\* once and hands the sender's connection exactly one message_sent with
\* that id, whether or not the recipient is live; message_sent and
\* new_message frames are sent in no other step, and the live push carries
\* the same message.
C14_AckAfterAppend ==
    [][/\ last'.op = "send_message" =>
             LET m == last'.task.msg
             IN /\ m.id = nextId + 1 /\ nextId' = m.id
                /\ queue' = [queue EXCEPT ![m.to] = Append(@, m)]
                /\ pending' = Append(pending, last'.task)
                /\ outbox' = Quiet
       /\ \A c \in Conns :
             (OfType(outbox'[c], "message_sent") # <<>>
                \/ OfType(outbox'[c], "new_message") # <<>>) => last'.op = "message_sent"
       /\ last'.op = "message_sent" =>
             LET t == last'.task
             IN /\ pending # <<>> /\ Head(pending) = t /\ pending' = Tail(pending)
                /\ t.type = "send_message" /\ t.msg.id <= nextId
                /\ \A i \in 1..Len(pending') : pending'[i].msg.id # t.msg.id
                /\ \A c \in Conns :
                      LET acks == OfType(outbox'[c], "message_sent")
                          pushes == OfType(outbox'[c], "new_message")
                      IN /\ Len(acks) = IF c = t.conn THEN 1 ELSE 0
                         /\ \A i \in 1..Len(acks) : acks[i].mid = t.msg.id
                         /\ \A i \in 1..Len(pushes) : pushes[i].msgs = <<t.msg>>
                         /\ Len(outbox'[c]) = Len(acks) + Len(pushes)
                         /\ acks # <<>> => outbox'[c][1] = acks[1]
      ]_vars

\* a message for an identity nobody holds was acknowledged to its sender
C14_Witness ==
    /\ last.op = "message_sent"
    /\ ~ Live(last.task.msg.to)
    /\ OfType(outbox[last.task.conn], "message_sent") # <<>>
    /\ ready[last.task.conn] = "open"

\* ---- C15 -----------------------------------------------------------------
\* a handler parked on its second await (the LREM of a seen, the DEL of a
\* seen_all) went back to the tail of `pending` when it issued that
\* command, so it arrived before every handler parked on a first await;
\* among handlers on the same await `pending` is in arrival order
SecondAwait(t) == t.pc \in {"lrem", "del"}

\* the handler still has a store mutation to issue
WillMutate(t) ==
    \/ t.type = "seen_all" /\ t.pc = "lrange"
    \/ t.type = "seen" /\ t.pc = "lrange" /\ FindById(t.snap, t.mid) # NoMsg

\* C15: frames of one connection are processed in arrival order: when a
\* frame's handler replies to the connection, or ends, no handler of an
\* earlier frame of that connection is still suspended; and when a
\* frame's store mutation is issued no earlier frame of that connection
\* has its own mutation still to come.
C15_ArrivalOrderPerConnection ==
    [][LET c == last'.task.conn
       IN /\ last'.op \in {"error", "throw"} =>
                \A i \in 1..Len(pending) : pending[i].conn # c
          /\ last'.op \in {"deliverPending", "message_sent", "seen_not_found",
                           "seen_done", "seen_all_done"} =>
                \A i \in 1..Len(pending') :
                    pending'[i].conn = c =>
                       ~ (SecondAwait(pending'[i]) /\ ~ SecondAwait(last'.task))
          /\ last'.op = "send_message" =>
                \A i \in 1..Len(pending) :
                    pending[i].conn = c => ~ WillMutate(pending[i])
      ]_vars

\* ---- C16 -----------------------------------------------------------------
\* q with its i-th entry taken out
Without(q, i) == [j \in 1..(Len(q) - 1) |-> IF j < i THEN q[j] ELSE q[j + 1]]

\* C16: a queue changes only by an append at its tail, by the removal of
\* one entry with the others keeping their order, or by being emptied;
\* and a connection receives the messages of a queue in the order they
\* were appended to it (ids grow with the time of the append): when a
\* message reaches a connection for the first time, no message of the same
\* queue appended after it has reached that connection before.
C16_QueueOrder ==
    [][/\ \A k \in Ids :
             \/ queue'[k] = queue[k]
             \/ queue'[k] = <<>>
             \/ Len(queue'[k]) = Len(queue[k]) + 1
                  /\ SubSeq(queue'[k], 1, Len(queue[k])) = queue[k]
             \/ \E i \in 1..Len(queue[k]) : queue'[k] = Without(queue[k], i)
       /\ \A c \in Conns :
             LET r == Carried(Transmitted(outbox')[c])
             IN \A i \in 1..Len(r) :
                   (r[i] \notin hist.got[c] /\ \A j \in 1..(i - 1) : r[j] # r[i]) =>
                      /\ \A m \in hist.got[c] : m.to = r[i].to => m.id < r[i].id
                      /\ \A j \in 1..(i - 1) : r[j].to = r[i].to => r[j].id < r[i].id
      ]_vars

\* ---- C17 -----------------------------------------------------------------
\* a send_message, seen or seen_all handler waits on Redis while Redis is
\* unreachable
WaitsOnStore(c) ==
    /\ store = "down"
    /\ \E i \in 1..Len(pending) :
          pending[i].conn = c /\ pending[i].type \in {"send_message", "seen", "seen_all"}

\* C17: while the store is unreachable no send_message, seen or seen_all
\* handler stays suspended for ever: it ends, and a handler that ends
\* while the store is unreachable has sent its caller an error frame.
C17_StoreDownFails ==
    /\ \A c \in Conns : WaitsOnStore(c) ~> ~ WaitsOnStore(c)
    /\ [][(store = "down" /\ Len(pending') < Len(pending)) =>
             /\ Len(outbox'[Head(pending).conn]) = 1
             /\ outbox'[Head(pending).conn][1].type = "error"
         ]_vars

\* ---- C18 -----------------------------------------------------------------
\* C18: every send_message frame the client writes is written when an
\* encryption completes, and its content is encryptWithPassword of what
\* the user typed, picked or recorded under the password the session
\* holds, never that input itself.
C18_OnlyCiphertextLeaves ==
    [][\A i \in 1..Len(tx') :
          tx'[i].frame.type = "send_message" =>
             /\ clast'.op = "encryptDone"
             /\ gc'.sessionPassword # Null
             /\ tx'[i].frame.content.kind = "enc"
             /\ tx'[i].frame.content =
                   EncryptWithPassword(clast'.job.input, gc'.sessionPassword)
      ]_vars

\* ---- C19 -----------------------------------------------------------------
\* a seen frame for message id is among the frames fs
SeenIn(fs, id) ==
    \E i \in 1..Len(fs) : fs[i].frame.type = "seen" /\ fs[i].frame.messageId = id

\* C19: when the client renders a message it was sent (in a new_message
\* or a pending_messages frame) that is addressed to its own identity,
\* and its channel is open, it writes a seen frame with the message's id
\* in the same step.
C19_SeenForOwnMessages ==
    [][\A i \in 1..Len(shown') :
          (/\ shown'[i].id # 0
           /\ shown'[i].to = gc'.userId
           /\ WsOpen(gc', socks')) => SeenIn(tx', shown'[i].id)
      ]_vars

\* ---- C20 -----------------------------------------------------------------
\* the job that goes on with the batch of the last step, if any
RestOf(js, jid) ==
    IF \E j \in js : j.jid = jid
        THEN (CHOOSE j \in js : j.jid = jid).msgs ELSE <<>>

\* C20: a message whose decryption fails is rendered as the placeholder,
\* leaves the module variables and the sockets as they were, is
\* acknowledged with a seen frame (the channel being open), and the
\* messages after it in the batch are rendered in the same step or stay
\* with the handler, none skipped.
C20_DecryptFailureContained ==
    [][clast'.op \in {"new_message", "pending_messages", "decryptDone"} =>
          LET msgs == clast'.job.msgs
              rest == RestOf(jobs', clast'.job.jid)
          IN /\ Len(shown') + Len(rest) = Len(msgs)
             /\ rest = SubSeq(msgs, Len(shown') + 1, Len(msgs))
             /\ \A i \in 1..Len(shown') :
                   /\ shown'[i].id = msgs[i].id
                   /\ ~ DecryptWithPassword(msgs[i].content, clast'.job.pw).ok =>
                         /\ shown'[i].text = "Ruido ilegible"
                         /\ gc' = gc /\ socks' = socks
                         /\ WsOpen(gc, socks) => SeenIn(tx', msgs[i].id)
      ]_vars

\* ---- C21 -----------------------------------------------------------------
\* min(1000 * 2^n, 15000)
BackoffOf(n) == IF 1000 * (2 ^ n) < 15000 THEN 1000 * (2 ^ n) ELSE 15000

\* C21, as stated: a reconnect timer set when n timers have been set since
\* the last successful open has the delay min(1000 * 2^n, 15000) ms, which
\* is at least the delay of the timer set before it since that open and at
\* most 15000; so the first timer after an open has the delay 1000.
C21_BackoffSinceOpen ==
    [][\A t \in timers' \ timers :
          /\ t.delay = BackoffOf(chist.sinceOpen)
          /\ t.delay >= chist.lastDelay
          /\ t.delay <= 15000
      ]_vars

\* C21, amended: the count n starts again at every successful open and at
\* every destroy(); with n the number of timers set since the last of
\* these, the delay is min(1000 * 2^n, 15000) ms, non-decreasing and capped.
C21_BackoffSinceReset ==
    [][\A t \in timers' \ timers :
          /\ t.delay = BackoffOf(chist.sinceReset)
          /\ t.delay >= chist.prevDelay
          /\ t.delay <= 15000
      ]_vars

\* the sixth failure in a row: the delay stays at the cap
C21_Witness ==
    /\ chist.sinceReset = 6
    /\ \E t \in timers : t.delay = 15000
    /\ clast.op = "close"

\* ---- C22 -----------------------------------------------------------------
\* C22: at most one reconnect timer is pending in every reachable state,
\* and it is the one reconnectTimer names; a 'close' listener that calls
\* scheduleReconnect() while a timer is pending leaves the pending timers,
\* reconnectTimer and reconnectAttempts as they were.
C22_OneTimerPending ==
    /\ [](/\ Cardinality(timers) <= 1
          /\ \A t \in timers : t.id = gc.reconnectTimer
          /\ gc.reconnectTimer # 0 => timers # {})
    /\ [][(clast'.op = "close" /\ timers # {}) =>
             /\ timers' = timers
             /\ gc'.reconnectTimer = gc.reconnectTimer
             /\ gc'.reconnectAttempts = gc.reconnectAttempts
         ]_vars

\* a socket that had opened was closed while a timer was still pending:
\* the 'close' listener set no timer
C22_Witness ==
    /\ clast.op = "close"
    /\ timers # {}
    /\ chist.sinceReset = 0

\* ---- C23 -----------------------------------------------------------------
\* C23: when the 'close' event of the socket that destroy() closed has
\* been handled, and no alias and password were submitted in between, no
\* socket is open or being opened, no reconnect timer is pending,
\* reconnectAttempts is 0 and ws, userId, sessionPassword and recipientId
\* are null.
C23_SessionEndClean ==
    [][(/\ clast'.op = "close"
        /\ \E s \in Socks : socks[s] = "closing" /\ socks'[s] = "closed"
        /\ gc.sessionPassword = Null) =>
          /\ \A s \in Socks : socks'[s] \in {"unused", "closed"}
          /\ timers' = {}
          /\ gc'.reconnectTimer = 0
          /\ gc'.reconnectAttempts = 0
          /\ gc'.ws = NoSock
          /\ gc'.userId = Null
          /\ gc'.sessionPassword = Null
          /\ gc'.recipientId = Null
      ]_vars

\* ---- C24 -----------------------------------------------------------------
\* a register frame among the frames written
HasRegister(fs) == \E i \in 1..Len(fs) : fs[i].frame.type = "register"

\* C24: a reconnect timer that fires while sessionPassword or userId is
\* null creates no socket and leaves ws as it was; and while they are
\* null, that is before the first submission and from destroy() to the
\* next submission of an alias and a password, no step other than that
\* submission leaves a socket connecting or open or writes a register
\* frame.
C24_ReconnectNeedsCredentials ==
    [][(gc.sessionPassword = Null \/ gc.userId = Null) =>
          /\ clast'.op = "timer" => (socks' = socks /\ gc'.ws = gc.ws)
          /\ clast'.op # "submit" =>
                /\ \A s \in Socks : socks'[s] \notin {"connecting", "open"}
                /\ ~ HasRegister(tx')
      ]_vars

\* a timer fired after destroy(), with no password held
C24_Witness ==
    /\ clast.op = "timer"
    /\ gc.sessionPassword = Null
    /\ gc.userId = Null
    /\ \E s \in Socks : socks[s] = "closed"

\* ---- C25 -----------------------------------------------------------------
\* a password and an identity are held
Held == gc.sessionPassword # Null /\ gc.userId # Null

\* ws names a socket that is being opened or is open
Attempt == gc.ws # NoSock /\ socks[gc.ws] \in {"connecting", "open"}

\* the run may create one more socket
SocketsLeft == \E s \in 1..cenv.sockets : socks[s] = "unused"

\* C25: while a password and an identity are held, a state in which no
\* socket is open or being opened has a reconnect timer pending, and (the
\* timer firing) it is followed by a new connection attempt unless the
\* session is ended first; a socket that opens writes exactly one frame,
\* the register frame with the held identity, on that socket, and no other
\* step writes a register frame.
C25_ReconnectsWhileHeld ==
    /\ []((Held /\ ~ Attempt) => timers # {})
    /\ ((Held /\ ~ Attempt /\ SocketsLeft) ~> (Attempt \/ ~ Held))
    /\ [][/\ (clast'.op = "open") =>
                (/\ Len(tx') = 1
                 /\ tx'[1].frame = RegisterFrame(gc'.userId)
                 /\ gc'.userId # Null
                 /\ socks[tx'[1].sock] = "connecting"
                 /\ socks'[tx'[1].sock] = "open")
          /\ HasRegister(tx') => (clast'.op = "open")
         ]_vars

\* within one session, a socket opened after an earlier one had failed,
\* and registered
C25_Witness ==
    /\ clast.op = "open"
    /\ Held
    /\ gc.ws > 1
    /\ cenv.destroy = MaxDestroys
    /\ HasRegister(tx)

\* ---- C26 -----------------------------------------------------------------
\* a non-empty string
ValidPw(W) == W.t = "string" /\ W.s # ""

\* C26: in the Node module and in the browser module, for every plaintext
\* P and every non-empty password W, decryptWithPassword applied to the
\* unaltered result of encryptWithPassword(P, W), with W, returns P.
C26_RoundTrip ==
    (/\ cry.phase = "opened"
     /\ cry.how = "intact"
     /\ ValidPw(cry.W)
     /\ cry.W2 = cry.W) =>
        /\ cry.res.ok
        /\ cry.res.pt = cry.P

\* ---- C27 -----------------------------------------------------------------
\* the errors of the Node decryptWithPassword, with the encrypting
\* password, on the envelope with one byte changed
TamperFailures(e, W) ==
    {NodeDecryptWithPassword(Flip(e, i), W).err : i \in 1..Len(e)}

\* what C27 says of one call of the Node decryptWithPassword with W2 on an
\* envelope made with W1 = cry.W that was not cut: with a byte changed or
\* with W2 # W1 it fails, releasing no plaintext; and with W2 # W1 on the
\* unaltered envelope it fails with the one error the changed envelope
\* fails with under W1.
FailsClosed ==
    /\ (cry.how = "flipped" \/ cry.W2 # cry.W) =>
          (~ cry.res.ok /\ cry.res.pt = <<>>)
    /\ (cry.how = "intact" /\ cry.W2 # cry.W) =>
          TamperFailures(cry.sealed.env, cry.W) = {cry.res.err}

\* C27, as stated: for every string W2 other than W1.
C27_NodeFailsClosedAnyString ==
    (/\ cry.phase = "opened"
     /\ cry.impl = "node"
     /\ cry.how \in {"intact", "flipped"}
     /\ cry.W2.t = "string") => FailsClosed

\* C27, amended: for every non-empty string W2 other than W1.
C27_NodeFailsClosed ==
    (/\ cry.phase = "opened"
     /\ cry.impl = "node"
     /\ cry.how \in {"intact", "flipped"}
     /\ ValidPw(cry.W2)) => FailsClosed

\* the envelope of a non-empty plaintext with a ciphertext byte changed
\* was refused under the right password
C27_Witness ==
    /\ cry.phase = "opened"
    /\ cry.impl = "node"
    /\ cry.how = "flipped"
    /\ cry.P # <<>>
    /\ cry.W2 = cry.W
    /\ cry.env[Len(cry.env)].kind = "flipped"
    /\ ~ cry.res.ok
    /\ cry.res.err.type = "Error"

\* ---- C28 -----------------------------------------------------------------
\* a non-empty password other than W
OtherPw(W) == CHOOSE V \in PwValues : ValidPw(V) /\ V # W

\* C28: in both modules, a decryptWithPassword call that is given a
\* non-empty password and either a wrong one, an envelope with a byte
\* changed or a cut envelope fails, and its error (type and message) is
\* the error the unaltered envelope gives under a wrong password: one
\* error for the three causes.
C28_OneGenericError ==
    (/\ cry.phase = "opened"
     /\ ValidPw(cry.W) /\ ValidPw(cry.W2)
     /\ (cry.how \in {"flipped", "truncated"} \/ cry.W2 # cry.W)) =>
        /\ ~ cry.res.ok
        /\ cry.res.err = DecryptOf(cry.impl, cry.sealed.env, OtherPw(cry.W)).err

\* ---- C29 -----------------------------------------------------------------
\* C29: in both modules deriveKey called with an empty string or with a
\* value that is no string fails with a TypeError and derives no key;
\* called twice with a non-empty password and the same salt it returns the
\* same key both times, and the salt it returns is the salt the key was
\* derived with (the given one when one was given).
C29_DeriveKeyContract ==
    cry.phase = "derived" =>
       IF ValidPw(cry.W)
           THEN /\ cry.d1.ok /\ cry.d2.ok
                /\ cry.d1.key.salt = cry.d1.salt
                /\ cry.given # NoSalt =>
                      (cry.d1.key = cry.d2.key /\ cry.d1.salt = cry.given)
           ELSE /\ ~ cry.d1.ok
                /\ cry.d1.err.type = "TypeError"
                /\ cry.d1.key = NoKey

\* ---- C30 -----------------------------------------------------------------
\* the field the byte at offset k (from 1) of an n-byte envelope belongs
\* to in the layout salt(32) || nonce(12) || ciphertext || tag(16)
FieldAt(k, n) ==
    IF k <= 32 THEN "salt"
    ELSE IF k <= 32 + 12 THEN "iv"
    ELSE IF k <= n - 16 THEN "ct"
    ELSE "tag"

\* C30: in both modules the bytes of the envelope encryptWithPassword
\* returns are salt(32) || nonce(12) || ciphertext || tag(16): 60 bytes
\* and the bytes of the plaintext, every byte of the field the layout
\* gives its offset.
C30_EnvelopeLayout ==
    (cry.phase = "sealed" /\ cry.sealed.ok) =>
       LET raw == Raw(cry.impl, cry.sealed.env)
       IN /\ Len(raw) = 32 + 12 + 16 + Len(Utf8Encode(cry.P))
          /\ \A k \in 1..Len(raw) : raw[k].kind = FieldAt(k, Len(raw))


\* the too-short rejections of the two modules
TooShort(impl) ==
    IF impl = "node" THEN Err("TypeError", "Payload is too short or not a Buffer.")
    ELSE Err("Error", "Payload too short.")

\* C31: decryptWithPassword rejects an envelope of fewer than 61 bytes as
\* too short before it derives a key or runs the cipher, and an envelope of
\* 61 bytes or more passes the length check
C31_ShortRejectedFirst ==
    cry.phase = "opened" =>
        LET n == Len(Raw(cry.impl, cry.env))
        IN /\ n < 61 => /\ ~ cry.res.ok
                        /\ cry.res.err = TooShort(cry.impl)
                        /\ cry.calls = <<>>
           /\ n >= 61 => /\ cry.res.err # TooShort(cry.impl)
                         /\ cry.calls # <<>>
                         /\ cry.calls[1] = "deriveKey"

C31_Witness ==
    /\ cry.phase = "opened"
    /\ cry.how = "truncated"
    /\ Len(Raw(cry.impl, cry.env)) = 60
    /\ cry.calls = <<>>


\* ---- C32 -----------------------------------------------------------------
\* the messages held in the Redis lists
Stored == UNION {Range(queue[k]) : k \in Ids}

\* C32: every entry of Queue(k) is addressed to k and no message id occurs
\* twice, in one queue or in two; an entry enters a queue only as the
\* message a send_message frame created, stamped with the userId its
\* connection held when the frame was read and appended to the queue of
\* its recipient.
C32_OneQueuePerMessage ==
    /\ [](/\ \A k \in Ids : \A i \in 1..Len(queue[k]) : queue[k][i].to = k
          /\ \A k1 \in Ids : \A k2 \in Ids :
                \A i \in 1..Len(queue[k1]) : \A j \in 1..Len(queue[k2]) :
                   queue[k1][i].id = queue[k2][j].id => (k1 = k2 /\ i = j))
    /\ [][\A m \in Stored' \ Stored :
             /\ last'.op = "send_message"
             /\ m = last'.task.msg
             /\ m.from = userId[last'.task.conn]
             /\ m.from # Null
             /\ queue'[m.to] = Append(queue[m.to], m)]_vars

\* one queue holds the messages of two senders
C32_Witness ==
    \E k \in Ids :
        /\ Len(queue[k]) = 2
        /\ queue[k][1].from # queue[k][2].from
        /\ queue[k][1].id # queue[k][2].id


\* ---- C33 -----------------------------------------------------------------
\* the messages the frames of this step carry
Pushed == UNION {Range(Carried(outbox[c])) : c \in Conns}

\* C33: every message in a Redis list and every message in a
\* pending_messages or new_message frame has mediaType text, image or
\* audio, and a message is stored with the mediaType of its send_message
\* frame, or with text when the frame has none.
C33_MediaKinds ==
    \A m \in Stored \cup Pushed : m.mediaType \in {"text", "image", "audio"}


\* ---- C34 -----------------------------------------------------------------
\* destroy() was called on the manager
Destroyed == \E i \in 1..Len(cry.log) : cry.log[i] = "destroy"

\* C34: until destroy() every access to key returns the 32-byte key the
\* constructor drew; after destroy() every access to key throws; destroy()
\* never throws, and a second destroy() changes nothing.
C34_KeyLifecycle ==
    /\ [](cry.phase = "skm" /\ cry.log # <<>> =>
            /\ (cry.log[Len(cry.log)] = "key" /\ ~ Destroyed) =>
                  (cry.res.ok /\ cry.res.val = cry.made /\ Len(cry.res.val) = 32)
            /\ (cry.log[Len(cry.log)] = "key" /\ Destroyed) =>
                  (~ cry.res.ok /\ cry.res.err.message = "Session key has been destroyed.")
            /\ cry.log[Len(cry.log)] = "destroy" => cry.res.ok)
    /\ [][(cry.phase = "skm" /\ Destroyed /\ cry'.log = Append(cry.log, "destroy")) =>
             (cry'.key = cry.key /\ cry'.held = cry.held /\ cry'.res.ok)]_vars

\* key was read, the manager destroyed, key read again and destroy()
\* called a second time
C34_Witness ==
    /\ cry.phase = "skm"
    /\ cry.log = <<"key", "destroy", "key", "destroy">>
    /\ cry.key = NoBuffer


\* ---- C35 -----------------------------------------------------------------
\* the frames of the last step that reached connection c, and those of
\* this step
Reached(c) == Range(Transmitted(outbox)[c])
ReachedNext(c) == Range(Transmitted(outbox')[c])

\* C35, for a register that is in progress while a send_message to its
\* userId completes: the connection is not sent a message in a new_message
\* frame and then, by the register that had already entered it in the
\* registry, once more in the pending_messages batch.
C35_DeliveredOnce ==
    [][(last.op = "message_sent" /\ last'.op = "deliverPending") =>
          LET t == last'.task
          IN \A m \in Range(t.snap) :
                ~ (/\ NewMessage(m) \in Reached(t.conn)
                   /\ PendingMessages(t.snap) \in ReachedNext(t.conn))]_vars


\* ---- C36 -----------------------------------------------------------------
\* connection c registered as its userId and another connection has
\* registered that userId since
Superseded(c) == userId[c] # Null /\ lastReg[userId[c]] # c

\* C36: a frame read from a superseded connection does not act for the
\* identity the connection had registered: its send_message creates no
\* message stamped with that identity, and the seen or seen_all handler it
\* starts removes nothing from the queue of that identity.
C36_SupersededCannotAct ==
    [][/\ (last'.op = "send_message" /\ Superseded(last'.task.conn)) =>
             last'.task.msg.from # userId[last'.task.conn]
       /\ (/\ last.op \in {"seen", "seen_all"}
           /\ last'.op \in {"seen_lrem", "seen_all_del"}
           /\ last'.task.conn = last.task.conn
           /\ Superseded(last.task.conn)) =>
             queue'[userId[last.task.conn]] = queue[userId[last.task.conn]]]_vars


\* ---- C37 -----------------------------------------------------------------
\* C37: when a step of the client renders a message as 'sent', the same
\* step has written the send_message frame with its envelope to a socket
\* that is OPEN.
C37_SentOnlyIfWritten ==
    \A i \in 1..Len(shown) :
        shown[i].type = "sent" =>
            \E k \in 1..Len(tx) :
                /\ tx[k].frame.type = "send_message"
                /\ tx[k].frame.content = clast.job.content
                /\ socks[tx[k].sock] = "open"


\* ---- C38 -----------------------------------------------------------------
\* the frames fs hold a seen
WritesSeen(fs) == \E k \in 1..Len(fs) : fs[k].frame.type = "seen"

\* C38: seen frames are written in the order in which the frames that
\* carried their messages arrived: a step that writes a seen for a message
\* of one frame is not followed by a step that writes a seen for a message
\* of a frame that arrived earlier.
C38_SeenInArrivalOrder ==
    [][(WritesSeen(tx) /\ WritesSeen(tx')) => clast.job.jid <= clast'.job.jid]_vars


\* ---- C39 -----------------------------------------------------------------
\* C39: the send_message frame of every media file the client accepts
\* (at most 5 * 1024 * 1024 bytes) is at most 5 * 1024 * 1024 bytes long,
\* and the relay accepts it.
C39_AcceptedMediaFits ==
    (cry.phase \in {"framed", "accepted", "closed"} /\ cry.size <= 5 * 1024 * 1024) =>
        /\ cry.frame <= 5 * 1024 * 1024
        /\ cry.phase # "closed"


\* ---- C40 -----------------------------------------------------------------
\* what the session holds
SessionState ==
    <<gc.sessionPassword, gc.userId, gc.recipientId, gc.ws, gc.isConnected,
      gc.reconnectAttempts, gc.reconnectTimer, socks, timers, jobs>>

\* C40: hiding the chat on Escape leaves password, identity, recipient,
\* socket, attempt counter and reconnect timer as they were, the pending
\* timers and the suspended handlers too; while the chat is hidden a
\* message of another identity whose decryption ends is rendered with its
\* plaintext and acknowledged with a seen on the open socket; and the
\* password and the identity are given up by destroy() alone.
C40_PanicKeepsSession ==
    /\ [][clast'.op = "deactivate" => SessionState' = SessionState]_vars
    /\ [](/\ clast.op = "decryptDone"
          /\ ~ gc.active
          /\ gc.sessionPassword # Null
          /\ clast.job.pw = gc.sessionPassword
          /\ Head(clast.job.msgs).from # gc.userId
          /\ Head(clast.job.msgs).content.kind = "enc"
          /\ Head(clast.job.msgs).content.key = KeyOf(gc.sessionPassword)
          /\ WsOpen(gc, socks)
          => /\ shown # <<>>
             /\ shown[1].text = Head(clast.job.msgs).content.pt
             /\ tx # <<>>
             /\ tx[1].frame.type = "seen"
             /\ tx[1].frame.messageId = Head(clast.job.msgs).id)
    /\ [][(gc.sessionPassword # Null /\ gc'.sessionPassword = Null) \/
          (gc.userId # Null /\ gc'.userId = Null) => clast'.op = "destroy"]_vars

\* a message was decrypted and acknowledged while the chat was hidden
C40_Witness ==
    /\ clast.op = "decryptDone"
    /\ ~ gc.active
    /\ gc.sessionPassword # Null
    /\ shown # <<>>
    /\ shown[1].text = "hi"
    /\ tx # <<>>
    /\ tx[1].frame.type = "seen"

====
